---- MODULE Spec2Model ----
(***************************************************************************)
(* A model of open-claudecode: the ReactAgent loop (src/app/Agent.py), the *)
(* delegation tool (src/tools/tasktool.py), the read ledger                *)
(* (src/tools/edittool.py) and the file tools (readtool.py, writetool.py,  *)
(* edittool.py, multiedittool.py).                                         *)
(*                                                                         *)
(* Text is a sequence of one-character strings; a file is a record         *)
(* [exists, content]; the ledger is the set _read_files_tracker of         *)
(* normalized absolute paths.                                              *)
(***************************************************************************)
EXTENDS Integers, Sequences, FiniteSets, TLC

\* ------------------------------------------------------------------ bounds

\* Longest file content the model keeps (a call whose result would be longer
\* is not taken).
MaxLen == 3
\* Longest edit list handed to multi_edit_tool.
MaxEdits == 2
\* Model calls (reasoning turns) in a run, over all agents and queries.
MaxTurns == 4
\* Tool-call requests in a run, over all turns.
MaxRequests == 3
\* Callers of mark_file_as_read / is_file_read running at the same time.
MaxThreads == 2
\* The last second of the clock of the fetch cache.
MaxClock == 1353
\* Steps of a shell command.
MaxSteps == 3
\* The longest list binary_search is called on, and its largest element.
MaxArr == 4
MaxVal == 3
\* Chunks of a model stream followed chunk by chunk.
MaxChunks == 3

\* --------------------------------------------------------- Python strings

Alphabet == {"a", "b"}

\* s[i..] starts with t (1-based i).
MatchAt(s, t, i) ==
    /\ i + Len(t) - 1 <= Len(s)
    /\ \A j \in 1..Len(t) : s[i + j - 1] = t[j]

\* str.find(t, start): the least position >= i where t occurs, 0 when none.
RECURSIVE FindFrom(_, _, _)
FindFrom(s, t, i) ==
    IF i + Len(t) - 1 > Len(s) THEN 0
    ELSE IF MatchAt(s, t, i) THEN i
    ELSE FindFrom(s, t, i + 1)

\* `t in s`: the empty string is in every string.
StrIn(t, s) == FindFrom(s, t, 1) # 0

\* str.count(t): non-overlapping occurrences left to right; len(s)+1 for "".
RECURSIVE CountFrom(_, _, _)
CountFrom(s, t, i) ==
    LET p == FindFrom(s, t, i)
    IN IF p = 0 THEN 0 ELSE 1 + CountFrom(s, t, p + Len(t))

StrCount(s, t) == IF t = <<>> THEN Len(s) + 1 ELSE CountFrom(s, t, 1)

\* str.replace(old, new) for the empty old: new before every character and
\* at the end.
RECURSIVE Interleave(_, _)
Interleave(s, new) ==
    IF s = <<>> THEN new ELSE new \o <<Head(s)>> \o Interleave(Tail(s), new)

\* str.replace(old, new): every non-overlapping occurrence, left to right.
RECURSIVE ReplaceAllFrom(_, _, _, _)
ReplaceAllFrom(s, old, new, i) ==
    LET p == FindFrom(s, old, i)
    IN IF p = 0 THEN SubSeq(s, i, Len(s))
       ELSE SubSeq(s, i, p - 1) \o new \o ReplaceAllFrom(s, old, new, p + Len(old))

StrReplaceAll(s, old, new) ==
    IF old = <<>> THEN Interleave(s, new) ELSE ReplaceAllFrom(s, old, new, 1)

\* str.replace(old, new, 1): the first occurrence only.
StrReplaceFirst(s, old, new) ==
    LET p == FindFrom(s, old, 1)
    IN IF p = 0 THEN s
       ELSE SubSeq(s, 1, p - 1) \o new \o SubSeq(s, p + Len(old), Len(s))


\* Every text over the alphabet of at most n characters.
Texts(n) == UNION {[1..k -> Alphabet] : k \in 0..n}

\* ------------------------------------------------------------ file system

\* The normalized absolute paths that may hold a regular file.
Files == {"/p", "/q"}

\* The path arguments tools are called with: two spellings of /p, /q, the
\* directory /d and the relative path p.
RawPaths == {"/p", "/d/../p", "/q", "/d", "p"}

\* An isabs that takes every path for absolute.
IsAbs_Always(path) == TRUE

\* os.path.isabs
IsAbs(path) == path # "p"

\* os.path.abspath: normalizes the spelling (the working directory is /).
AbsPath(path) ==
    CASE path = "/d/../p" -> "/p"
      [] path = "p" -> "/p"
      [] OTHER -> path

\* os.path.isdir: /d is the one directory.
IsDir(path) == AbsPath(path) = "/d"

NoFile == [exists |-> FALSE, content |-> <<>>]
File(c) == [exists |-> TRUE, content |-> c]

\* os.path.exists and os.path.isfile on the file system f.
PathExists(f, path) == IsDir(path) \/ f[AbsPath(path)].exists
IsFile(f, path) == ~IsDir(path) /\ f[AbsPath(path)].exists

\* open(path, 'w').write(c)
WriteFile(f, path, c) == [f EXCEPT ![AbsPath(path)] = File(c)]

\* ----------------------------------------------------------------- ledger

\* mark_file_as_read that records nothing.
mark_file_as_read_Forgets(led, path) == led

\* _read_files_tracker.add(os.path.abspath(file_path))
mark_file_as_read(led, path) == led \cup {AbsPath(path)}

\* os.path.abspath(file_path) in _read_files_tracker
is_file_read(led, path) == AbsPath(path) \in led

\* ------------------------------------------------------------ tool results

\* What a tool call returns and does: the result dict (success, the error it
\* names, the fields claims read), the file system and ledger it leaves, and
\* the number of times it wrote the file.  scratch is the validation pass's
\* last current_content, final the content handed to f.write.
Outcome(f, led, ok, err) ==
    [success |-> ok, error |-> err, failed_edit |-> 0, occurrences |-> 0,
     replacements |-> 0, edits_processed |-> 0, scratch |-> <<>>,
     final |-> <<>>, writes |-> 0, fs |-> f, ledger |-> led]

Failure(f, led, err) == Outcome(f, led, FALSE, err)

\* ------------------------------------------------------------- read_tool

read_tool(f, led, path) ==
    IF ~IsAbs(path) THEN Failure(f, led, "relative_path")
    ELSE IF ~PathExists(f, path) THEN Failure(f, led, "not_exist")
    ELSE IF ~IsFile(f, path) THEN Failure(f, led, "not_a_file")
    ELSE Outcome(f, mark_file_as_read(led, path), TRUE, "")

\* What the file at the path is to read_tool: a text it can read, a Jupyter
\* notebook (a name ending in .ipynb), or a file open() is denied on.
ReadKinds == {"text", "notebook", "denied"}

\* A read_tool that marks the path as soon as it is an existing file.
read_tool_kind_MarksEarly(f, led, path, kind) ==
    IF ~IsAbs(path) THEN Failure(f, led, "relative_path")
    ELSE IF ~PathExists(f, path) THEN Failure(f, led, "not_exist")
    ELSE IF ~IsFile(f, path) THEN Failure(f, led, "not_a_file")
    ELSE IF f[AbsPath(path)].content = <<>> THEN read_tool(f, led, path)
    ELSE IF kind = "notebook" THEN Failure(f, mark_file_as_read(led, path), "notebook")
    ELSE IF kind = "denied"
         THEN Failure(f, mark_file_as_read(led, path), "permission_denied")
    ELSE read_tool(f, led, path)

\* read_tool on a file of that kind: an empty file is reported as read
\* before its name or content is looked at; a notebook is refused; a denied
\* open ends in the PermissionError handler.
read_tool_kind(f, led, path, kind) ==
    IF ~IsAbs(path) THEN Failure(f, led, "relative_path")
    ELSE IF ~PathExists(f, path) THEN Failure(f, led, "not_exist")
    ELSE IF ~IsFile(f, path) THEN Failure(f, led, "not_a_file")
    ELSE IF f[AbsPath(path)].content = <<>> THEN read_tool(f, led, path)
    ELSE IF kind = "notebook" THEN Failure(f, led, "notebook")
    ELSE IF kind = "denied" THEN Failure(f, led, "permission_denied")
    ELSE read_tool(f, led, path)

\* ------------------------------------------------------------ write_tool

\* write_tool without the read-first check on an existing file.
write_tool_NoReadCheck(f, led, path, content) ==
    IF ~IsAbs(path) THEN Failure(f, led, "relative_path")
    ELSE IF PathExists(f, path) /\ IsDir(path) THEN Failure(f, led, "is_directory")
    ELSE [Outcome(WriteFile(f, path, content), mark_file_as_read(led, path), TRUE, "")
            EXCEPT !.final = content, !.writes = 1]

write_tool(f, led, path, content) ==
    IF ~IsAbs(path) THEN Failure(f, led, "relative_path")
    ELSE IF PathExists(f, path) /\ IsDir(path) THEN Failure(f, led, "is_directory")
    ELSE IF PathExists(f, path) /\ ~is_file_read(led, path)
         THEN Failure(f, led, "read_first")
    ELSE [Outcome(WriteFile(f, path, content), mark_file_as_read(led, path), TRUE, "")
            EXCEPT !.final = content, !.writes = 1]

\* ------------------------------------------------------------- edit_tool

\* edit_tool without the read-first check (is_file_read never consulted).
edit_tool_NoReadCheck(f, led, path, old_string, new_string, replace_all) ==
    IF old_string = new_string THEN Failure(f, led, "same_strings")
    ELSE IF ~IsAbs(path) THEN Failure(f, led, "relative_path")
    ELSE IF ~PathExists(f, path) THEN Failure(f, led, "not_exist")
    ELSE IF ~IsFile(f, path) THEN Failure(f, led, "not_a_file")
    ELSE
      LET original_content == f[AbsPath(path)].content
          occurrence_count == StrCount(original_content, old_string)
          new_content == IF replace_all
                         THEN StrReplaceAll(original_content, old_string, new_string)
                         ELSE StrReplaceFirst(original_content, old_string, new_string)
      IN IF ~StrIn(old_string, original_content) THEN Failure(f, led, "not_found")
         ELSE IF ~replace_all /\ occurrence_count > 1
              THEN [Failure(f, led, "multiple") EXCEPT !.occurrences = occurrence_count]
         ELSE [Outcome(WriteFile(f, path, new_content), led, TRUE, "")
                 EXCEPT !.final = new_content, !.writes = 1,
                        !.occurrences = occurrence_count,
                        !.replacements = IF replace_all THEN occurrence_count ELSE 1]

\* edit_tool replacing the first occurrence only, whatever replace_all is.
edit_tool_FirstOnly(f, led, path, old_string, new_string, replace_all) ==
    IF old_string = new_string THEN Failure(f, led, "same_strings")
    ELSE IF ~IsAbs(path) THEN Failure(f, led, "relative_path")
    ELSE IF ~is_file_read(led, path) THEN Failure(f, led, "read_first")
    ELSE IF ~PathExists(f, path) THEN Failure(f, led, "not_exist")
    ELSE IF ~IsFile(f, path) THEN Failure(f, led, "not_a_file")
    ELSE
      LET original_content == f[AbsPath(path)].content
          occurrence_count == StrCount(original_content, old_string)
          new_content == StrReplaceFirst(original_content, old_string, new_string)
      IN IF ~StrIn(old_string, original_content) THEN Failure(f, led, "not_found")
         ELSE IF ~replace_all /\ occurrence_count > 1
              THEN [Failure(f, led, "multiple") EXCEPT !.occurrences = occurrence_count]
         ELSE [Outcome(WriteFile(f, path, new_content), led, TRUE, "")
                 EXCEPT !.final = new_content, !.writes = 1,
                        !.occurrences = occurrence_count,
                        !.replacements = IF replace_all THEN occurrence_count ELSE 1]

edit_tool(f, led, path, old_string, new_string, replace_all) ==
    IF old_string = new_string THEN Failure(f, led, "same_strings")
    ELSE IF ~IsAbs(path) THEN Failure(f, led, "relative_path")
    ELSE IF ~is_file_read(led, path) THEN Failure(f, led, "read_first")
    ELSE IF ~PathExists(f, path) THEN Failure(f, led, "not_exist")
    ELSE IF ~IsFile(f, path) THEN Failure(f, led, "not_a_file")
    ELSE
      LET original_content == f[AbsPath(path)].content
          occurrence_count == StrCount(original_content, old_string)
          new_content == IF replace_all
                         THEN StrReplaceAll(original_content, old_string, new_string)
                         ELSE StrReplaceFirst(original_content, old_string, new_string)
      IN IF ~StrIn(old_string, original_content) THEN Failure(f, led, "not_found")
         ELSE IF ~replace_all /\ occurrence_count > 1
              THEN [Failure(f, led, "multiple") EXCEPT !.occurrences = occurrence_count]
         ELSE [Outcome(WriteFile(f, path, new_content), led, TRUE, "")
                 EXCEPT !.final = new_content, !.writes = 1,
                        !.occurrences = occurrence_count,
                        !.replacements = IF replace_all THEN occurrence_count ELSE 1]

\* -------------------------------------------------------- multi_edit_tool

Edit(old, new, ra) == [old_string |-> old, new_string |-> new, replace_all |-> ra]

\* The creation sentinel as both loops test it: creating_new_file and i == 0
\* and old_string == '' (i is 1-based here).
IsCreationEdit(creating, i, edit) == creating /\ i = 1 /\ edit.old_string = <<>>

\* One replacement as both loops make it.
ApplyEdit(content, edit) ==
    IF edit.replace_all
    THEN StrReplaceAll(content, edit.old_string, edit.new_string)
    ELSE StrReplaceFirst(content, edit.old_string, edit.new_string)

\* ValidateFrom without the uniqueness check (not replace_all and
\* occurrence_count > 1): the bug of validating presence only.
RECURSIVE ValidateFrom_NoUniqueness(_, _, _, _)
ValidateFrom_NoUniqueness(edits, creating, i, cur) ==
    IF i > Len(edits)
    THEN [ok |-> TRUE, failed_edit |-> 0, error |-> "", occurrences |-> 0, scratch |-> cur]
    ELSE
      LET e == edits[i]
          bad(err, n) == [ok |-> FALSE, failed_edit |-> i, error |-> err,
                          occurrences |-> n, scratch |-> cur]
      IN IF e.old_string = e.new_string /\ ~IsCreationEdit(creating, i, e)
         THEN bad("same_strings", 0)
         ELSE IF IsCreationEdit(creating, i, e)
         THEN ValidateFrom_NoUniqueness(edits, creating, i + 1, cur)
         ELSE IF ~StrIn(e.old_string, cur) THEN bad("not_found", 0)
         ELSE ValidateFrom_NoUniqueness(edits, creating, i + 1, ApplyEdit(cur, e))

\* ValidateFrom judging every edit against the content the loop started
\* with: current_content is not updated after an edit.
RECURSIVE ValidateFrom_AgainstOriginal(_, _, _, _)
ValidateFrom_AgainstOriginal(edits, creating, i, cur) ==
    IF i > Len(edits)
    THEN [ok |-> TRUE, failed_edit |-> 0, error |-> "", occurrences |-> 0, scratch |-> cur]
    ELSE
      LET e == edits[i]
          bad(err, n) == [ok |-> FALSE, failed_edit |-> i, error |-> err,
                          occurrences |-> n, scratch |-> cur]
      IN IF e.old_string = e.new_string /\ ~IsCreationEdit(creating, i, e)
         THEN bad("same_strings", 0)
         ELSE IF IsCreationEdit(creating, i, e)
         THEN ValidateFrom_AgainstOriginal(edits, creating, i + 1, cur)
         ELSE IF ~StrIn(e.old_string, cur) THEN bad("not_found", 0)
         ELSE IF ~e.replace_all /\ StrCount(cur, e.old_string) > 1
              THEN bad("multiple", StrCount(cur, e.old_string))
         ELSE ValidateFrom_AgainstOriginal(edits, creating, i + 1, cur)

\* The validation loop from edit i on, current_content being cur: the first
\* failing edit with its reason, or ok with the scratch content it ends with.
RECURSIVE ValidateFrom(_, _, _, _)
ValidateFrom(edits, creating, i, cur) ==
    IF i > Len(edits)
    THEN [ok |-> TRUE, failed_edit |-> 0, error |-> "", occurrences |-> 0, scratch |-> cur]
    ELSE
      LET e == edits[i]
          bad(err, n) == [ok |-> FALSE, failed_edit |-> i, error |-> err,
                          occurrences |-> n, scratch |-> cur]
      IN IF e.old_string = e.new_string /\ ~IsCreationEdit(creating, i, e)
         THEN bad("same_strings", 0)
         ELSE IF IsCreationEdit(creating, i, e)
         THEN ValidateFrom(edits, creating, i + 1, cur)
         ELSE IF ~StrIn(e.old_string, cur) THEN bad("not_found", 0)
         ELSE IF ~e.replace_all /\ StrCount(cur, e.old_string) > 1
              THEN bad("multiple", StrCount(cur, e.old_string))
         ELSE ValidateFrom(edits, creating, i + 1, ApplyEdit(cur, e))

\* The apply loop from edit i on: final_content and total_replacements.
RECURSIVE ApplyFrom(_, _, _, _, _)
ApplyFrom(edits, creating, i, final, total) ==
    IF i > Len(edits) THEN [final |-> final, total |-> total]
    ELSE
      LET e == edits[i]
      IN IF IsCreationEdit(creating, i, e)
         THEN ApplyFrom(edits, creating, i + 1, e.new_string, total + 1)
         ELSE ApplyFrom(edits, creating, i + 1, ApplyEdit(final, e),
                        total + (IF e.replace_all THEN StrCount(final, e.old_string) ELSE 1))

\* A multi_edit_tool that reports the edits validated before the failing one
\* as processed.
multi_edit_tool_CountsValidated(f, led, path, edits) ==
    IF edits = <<>> THEN Failure(f, led, "no_edits")
    ELSE IF ~IsAbs(path) THEN Failure(f, led, "relative_path")
    ELSE
      LET creating_new_file == edits[1].old_string = <<>>
      IN IF creating_new_file /\ PathExists(f, path) THEN Failure(f, led, "already_exists")
         ELSE IF ~creating_new_file /\ ~is_file_read(led, path)
              THEN Failure(f, led, "read_first")
         ELSE IF ~creating_new_file /\ ~PathExists(f, path)
              THEN Failure(f, led, "not_exist")
         ELSE IF ~creating_new_file /\ ~IsFile(f, path)
              THEN Failure(f, led, "not_a_file")
         ELSE
           LET current_content == IF creating_new_file THEN <<>>
                                  ELSE f[AbsPath(path)].content
               v == ValidateFrom(edits, creating_new_file, 1, current_content)
               a == ApplyFrom(edits, creating_new_file, 1, current_content, 0)
           IN IF ~v.ok
              THEN [Failure(f, led, v.error)
                      EXCEPT !.failed_edit = v.failed_edit,
                             !.edits_processed = v.failed_edit - 1,
                             !.occurrences = v.occurrences, !.scratch = v.scratch]
              ELSE [Outcome(WriteFile(f, path, a.final), led, TRUE, "")
                      EXCEPT !.scratch = v.scratch, !.final = a.final, !.writes = 1,
                             !.replacements = a.total,
                             !.edits_processed = Len(edits)]

multi_edit_tool(f, led, path, edits) ==
    IF edits = <<>> THEN Failure(f, led, "no_edits")
    ELSE IF ~IsAbs(path) THEN Failure(f, led, "relative_path")
    ELSE
      LET creating_new_file == edits[1].old_string = <<>>
      IN IF creating_new_file /\ PathExists(f, path) THEN Failure(f, led, "already_exists")
         ELSE IF ~creating_new_file /\ ~is_file_read(led, path)
              THEN Failure(f, led, "read_first")
         ELSE IF ~creating_new_file /\ ~PathExists(f, path)
              THEN Failure(f, led, "not_exist")
         ELSE IF ~creating_new_file /\ ~IsFile(f, path)
              THEN Failure(f, led, "not_a_file")
         ELSE
           LET current_content == IF creating_new_file THEN <<>>
                                  ELSE f[AbsPath(path)].content
               v == ValidateFrom(edits, creating_new_file, 1, current_content)
               a == ApplyFrom(edits, creating_new_file, 1, current_content, 0)
           IN IF ~v.ok
              THEN [Failure(f, led, v.error)
                      EXCEPT !.failed_edit = v.failed_edit,
                             !.occurrences = v.occurrences, !.scratch = v.scratch]
              ELSE [Outcome(WriteFile(f, path, a.final), led, TRUE, "")
                      EXCEPT !.scratch = v.scratch, !.final = a.final, !.writes = 1,
                             !.replacements = a.total,
                             !.edits_processed = Len(edits)]

\* ---------------------------------------------------------------- the agent
\* (src/app/Agent.py, src/tools/tasktool.py, src/main.py)

\* str.lower() on the characters the answers are made of.
Lower(c) ==
    CASE c = "Y" -> "y" [] c = "E" -> "e" [] c = "S" -> "s" [] c = "N" -> "n"
      [] OTHER -> c

StrLower(s) == [i \in 1..Len(s) |-> Lower(s[i])]

RECURSIVE LStrip(_)
LStrip(s) == IF s # <<>> /\ Head(s) = " " THEN LStrip(Tail(s)) ELSE s

RECURSIVE RStrip(_)
RStrip(s) == IF s # <<>> /\ s[Len(s)] = " " THEN RStrip(SubSeq(s, 1, Len(s) - 1)) ELSE s

\* str.strip()
Strip(s) == RStrip(LStrip(s))

\* The approval test without the normalisation: the raw answer is compared.
Approves_AnyAnswer(raw) == raw \notin {<<"n">>}

\* user_choice = input(...).strip().lower(); user_choice in ['y', 'yes']
Approves(raw) == StrLower(Strip(raw)) \in {<<"y">>, <<"y", "e", "s">>}

\* What the human types at the approval prompt.
Answers == {<<"y">>, <<" ", "Y", "E", "S", " ">>, <<>>, <<"n">>, <<"y", "e", "s", "!">>}

\* No answer read yet for the current request.
NoAnswer == <<"-">>

\* self.toolset
toolset ==
    {"bash_tool", "edit_tool", "grep_tool", "glob_tool", "ls_tool", "multi_edit_tool",
     "read_tool", "write_tool", "webfetch_tool", "websearch_tool", "task_tool",
     "todo_write_tool"}

\* A message of the history: its class (role), which text it is (tag), the
\* text where the model or a sub-run chose it, and the tool-call id it
\* carries (0: none; AIMessage(content=...) is built from the text alone).
Msg(role, tag, text, id) == [role |-> role, tag |-> tag, text |-> text, id |-> id]

SystemMessage(tag) == Msg("system", tag, <<>>, 0)
HumanMessage(tag) == Msg("human", tag, <<>>, 0)
AIMessage(text) == Msg("ai", "content", text, 0)

\* ToolMessage with tool_call_id 0 whatever the request.
ToolMessage_NoId(tag, text, id) == Msg("tool", tag, text, 0)

ToolMessage(tag, text, id) == Msg("tool", tag, text, id)

\* A task record of a todo list and the lists the model submits.
Todo(status) == [status |-> status]
TodoLists ==
    {<<Todo("pending")>>, <<Todo("in_progress"), Todo("in_progress")>>,
     <<Todo("invalid_status")>>}

\* todo_write_tool: every status in the enum and at most one in_progress, or
\* the list is refused.
todo_write_tool(f, led, todos) ==
    IF /\ \A i \in 1..Len(todos) : todos[i].status \in {"pending", "in_progress", "completed"}
       /\ Cardinality({i \in 1..Len(todos) : todos[i].status = "in_progress"}) <= 1
    THEN Outcome(f, led, TRUE, "")
    ELSE Failure(f, led, "invalid_todos")

\* hasattr(result, 'todos') taken to be true of every result.
hasattr_todos_Always(out) == TRUE

\* hasattr(result, 'todos'): result is a dict or a str, and neither has an
\* attribute todos.
hasattr_todos(out) == FALSE

\* A tool-call request of a model turn: name, args (the fields the named
\* tool reads), and whether args fail the tool's schema.
Request(name) ==
    [name |-> name, id |-> 0, path |-> "", old_string |-> <<>>, new_string |-> <<>>,
     replace_all |-> FALSE, edits |-> <<>>, content |-> <<>>, todos |-> <<>>,
     malformed |-> FALSE]

NoRequest == Request("none")

\* The requests the model makes: a read, a write, an edit and a creating
\* multi-edit of /p, rm /p, a search, a todo list, a delegation, a name that
\* is not in the toolset, and args without file_path.
ToolRequests ==
    {[Request("read_tool") EXCEPT !.path = "/p"]}
    \cup {[Request("write_tool") EXCEPT !.path = "/p", !.content = c] :
             c \in {<<"a">>}}
    \cup {[Request("edit_tool") EXCEPT !.path = "/p", !.old_string = e.old_string,
                                       !.new_string = e.new_string,
                                       !.replace_all = e.replace_all] :
             e \in {Edit(<<"a">>, <<"b">>, FALSE)}}
    \cup {[Request("multi_edit_tool") EXCEPT !.path = "/p", !.edits = l] :
             l \in {<<Edit(<<>>, <<"a">>, FALSE)>>}}
    \cup {[Request("bash_tool") EXCEPT !.path = "/p"]}
    \cup {Request("grep_tool")}
    \cup {[Request("todo_write_tool") EXCEPT !.todos = t] : t \in TodoLists}
    \cup {Request("task_tool")}
    \cup {Request("no_such_tool")}
    \cup {[Request("read_tool") EXCEPT !.malformed = TRUE]}

\* rm that also takes the path out of the ledger.
bash_tool_Unmarks(f, led, path) ==
    Outcome([f EXCEPT ![AbsPath(path)] = NoFile], led \ {AbsPath(path)}, TRUE, "")

\* bash_tool running rm on the path: the file is gone, the ledger untouched.
bash_tool(f, led, path) ==
    Outcome([f EXCEPT ![AbsPath(path)] = NoFile], led, TRUE, "")

\* tool.invoke(tool_input) for the tools that return at once.
RunTool(f, led, req) ==
    CASE req.name = "read_tool" -> read_tool(f, led, req.path)
      [] req.name = "write_tool" -> write_tool(f, led, req.path, req.content)
      [] req.name = "edit_tool" ->
            edit_tool(f, led, req.path, req.old_string, req.new_string, req.replace_all)
      [] req.name = "multi_edit_tool" -> multi_edit_tool(f, led, req.path, req.edits)
      [] req.name = "bash_tool" -> bash_tool(f, led, req.path)
      [] req.name = "todo_write_tool" -> todo_write_tool(f, led, req.todos)
      [] OTHER -> Outcome(f, led, TRUE, "")

\* The tool message telling success whatever the result says.
ResultTag_AlwaysOk(out) == "ok"

\* result["content"]: which of the tool's texts.
ResultTag(out) == IF out.success THEN "ok" ELSE out.error

\* One chunk of llm.stream: its text and the tool calls it carries.
Chunk(text, calls) == [content |-> text, calls |-> calls]

\* The streams of one model call: a text without requests, a request without
\* text, and two chunks each with text and a request.
Streams ==
    {<<Chunk(<<"b">>, 0)>>, <<Chunk(<<>>, 1)>>, <<Chunk(<<"a">>, 1), Chunk(<<"b">>, 1)>>}

\* Gathering that puts each chunk's text before the text gathered so far.
RECURSIVE Gather_Prepends(_)
Gather_Prepends(stream) ==
    IF Len(stream) = 1 THEN Head(stream)
    ELSE LET g == Gather_Prepends(SubSeq(stream, 1, Len(stream) - 1))
             c == stream[Len(stream)]
         IN [content |-> c.content \o g.content, calls |-> g.calls + c.calls]

\* gathered = chunk + chunk + ...
RECURSIVE Gather(_)
Gather(stream) ==
    IF Len(stream) = 1 THEN Head(stream)
    ELSE LET g == Gather(SubSeq(stream, 1, Len(stream) - 1))
             c == stream[Len(stream)]
         IN [content |-> g.content \o c.content, calls |-> g.calls + c.calls]

\* self.message_history.append(AIMessage(content=gathered.content)) if
\* gathered.content else None
AppendGathered(message_history, gathered) ==
    IF gathered.content # <<>>
    THEN Append(message_history, AIMessage(gathered.content))
    ELSE message_history

\* The streams reasoning() is followed through chunk by chunk: up to
\* MaxChunks chunks, each with no text or a character and with or without a
\* tool-call request.
ChunkStreams ==
    UNION {[1..n -> {Chunk(t, c) : t \in {<<>>, <<"a">>, <<"b">>}, c \in {0, 1}}] :
             n \in 1..MaxChunks}

\* No reasoning() followed chunk by chunk.
NoStream ==
    [pc |-> "none", chunks |-> <<>>, i |-> 0, first |-> TRUE, gathered |-> Chunk(<<>>, 0),
     appended |-> <<>>]

\* ReactAgent.__init__
NewAgent(is_main) ==
    [is_main |-> is_main,
     message_history |->
        <<SystemMessage("character_info"),
          SystemMessage(IF is_main THEN "main_agent_system_prompt"
                        ELSE "sub_agent_system_prompt"),
          HumanMessage("system_reminder")>>,
     todo_list |-> <<>>,
     pc |-> "idle",          \* where the agent's code stands
     content |-> <<>>,       \* gathered.content of the last reasoning turn
     tool_calls |-> <<>>,    \* the ids of gathered.tool_calls
     k |-> 0,                \* acting's position in tool_calls
     base |-> 0,             \* len(message_history) when acting was entered
     request |-> NoRequest,  \* tool_call
     answer |-> NoAnswer,    \* what input() returned for it
     exc |-> "",             \* the exception reason_and_act ended with
     ret |-> <<>>]           \* the value reason_and_act returned

\* reason_and_act starting every query from a fresh history: the messages
\* of the earlier queries are dropped.
Begin_FreshHistory(a) ==
    [a EXCEPT !.message_history =
                  SubSeq(a.message_history, 1, 3) \o <<HumanMessage("query")>>
                  \o (IF Len(a.todo_list) = 0 THEN <<HumanMessage("todo_list_reminder")>>
                      ELSE <<>>),
              !.pc = "reasoning", !.content = <<>>, !.tool_calls = <<>>, !.k = 0,
              !.base = 0, !.request = NoRequest, !.answer = NoAnswer, !.ret = <<>>]

\* A reason_and_act that appends the query only.
Begin_NoReminder(a) ==
    [a EXCEPT !.message_history = a.message_history \o <<HumanMessage("query")>>,
              !.pc = "reasoning", !.content = <<>>, !.tool_calls = <<>>, !.k = 0,
              !.base = 0, !.request = NoRequest, !.answer = NoAnswer, !.ret = <<>>]

\* reason_and_act up to the loop: the query and, the todo list being empty,
\* the reminder are appended.
Begin(a) ==
    [a EXCEPT !.message_history =
                  a.message_history \o <<HumanMessage("query")>>
                  \o (IF Len(a.todo_list) = 0 THEN <<HumanMessage("todo_list_reminder")>>
                      ELSE <<>>),
              !.pc = "reasoning", !.content = <<>>, !.tool_calls = <<>>, !.k = 0,
              !.base = 0, !.request = NoRequest, !.answer = NoAnswer, !.ret = <<>>]

\* An exception leaves reason_and_act.
Raise(a, e) == [a EXCEPT !.pc = "raised", !.exc = e]

\* acting after a rejected request: the same request is prompted again.
Advance_Retry(a) == [a EXCEPT !.pc = "resolve"]

\* The end of one iteration of acting's loop: the next request, or acting
\* returns and the while loop calls reasoning again.
Advance(a) ==
    IF a.k < Len(a.tool_calls) THEN [a EXCEPT !.k = a.k + 1, !.pc = "resolve"]
    ELSE [a EXCEPT !.pc = "reasoning"]

\* Lines 84-97 of acting: the tool message of the current request is
\* appended (the todo list is replaced when the result has todos).
Finish(a, tag, text, out) ==
    Advance([a EXCEPT !.message_history =
                          Append(a.message_history,
                                 IF a.request.name = "todo_write_tool" /\ hasattr_todos(out)
                                 THEN ToolMessage("todo_list_changed", text, a.request.id)
                                 ELSE ToolMessage(tag, text, a.request.id)),
                      !.todo_list = IF a.request.name = "todo_write_tool" /\ hasattr_todos(out)
                                    THEN a.request.todos ELSE a.todo_list])

\* ------------------------------------------------------------------ state

VARIABLES
    fs,        \* the files: [Files -> [exists, content]]
    ledger,    \* _read_files_tracker
    last,      \* the last tool call: its arguments, the state before, its result
    agents,    \* the ReactAgents alive: the main agent, then each sub-agent
               \* under the task_tool call of the one before it
    reqlog,    \* per tool-call id: times the prompt was shown, times invoked
    turns,     \* model calls made so far
    reads,     \* the paths a read_tool call has succeeded on (history variable)
    threads,   \* callers of the ledger's two functions running at the same
               \* time: where each stands, and the marks begun and ended
    cache_dir, \* the files of the fetch cache directory, per URL
    clock,     \* time.time(), in seconds
    lastop,    \* the last call on the fetch cache and what it returned
    missed,    \* per URL: why a get dropped its entry, "" if none did or a
               \* set was called since (history variable)
    proc,      \* the bash_tool call under way: the command's process, its
               \* output so far, the time it has run, and the result returned
    search,    \* the binary_search call under way: arr, target, left, right
               \* and the value returned
    llm_stream, \* a reasoning() call seen chunk by chunk: the stream, the
               \* chunks consumed, gathered, and the messages it appended
    fetched,   \* the last _fetch_url_content call: its url, the dict it
               \* returned and the network requests it made
    origin     \* per normalized URL: the content the network last delivered
               \* to a successful fetch, and when (history variable)

vars == <<fs, ledger, last, agents, reqlog, turns, reads, threads,
          cache_dir, clock, lastop, missed, proc, search, llm_stream,
          fetched, origin>>

\* The state of the fetch cache and of the shell command.
cachevars == <<cache_dir, clock, lastop, missed>>
fetchvars == <<fetched, origin>>
sidevars == <<cachevars, proc, search, llm_stream, fetchvars>>

agentvars == <<agents, reqlog, turns>>

NoCall ==
    [tool |-> "none", path |-> "", old_string |-> <<>>, new_string |-> <<>>,
     replace_all |-> FALSE, edits |-> <<>>, content |-> <<>>,
     pre |-> [p \in Files |-> NoFile], pre_ledger |-> {},
     out |-> Outcome([p \in Files |-> NoFile], {}, FALSE, "")]

\* The record of a call of tool with the arguments args (a NoCall with the
\* arguments set) that ended in out.
Called(tool, args, out) ==
    [args EXCEPT !.tool = tool, !.pre = fs, !.pre_ledger = ledger, !.out = out]

\* reads after a call of tool on path that ended in out.
Reads(tool, path, out) ==
    IF tool = "read_tool" /\ out.success THEN reads \cup {AbsPath(path)} ELSE reads

\* A call takes effect: the file system and ledger become the outcome's.  A
\* call that would leave a file longer than MaxLen is not taken.
Effect(tool, args, out) ==
    /\ \A p \in Files : Len(out.fs[p].content) <= MaxLen
    /\ Len(out.scratch) <= MaxLen
    /\ fs' = out.fs
    /\ ledger' = out.ledger
    /\ last' = Called(tool, args, out)
    /\ reads' = Reads(tool, args.path, out)
    /\ UNCHANGED <<agentvars, threads, sidevars>>

\* ------------------------------------------- the tools called directly
\* (as src/test_edit_tool.py, test_multi_edit_tool.py, test_write_tool.py
\* and test_read_tool.py call them: tool.invoke(args) in any order)

\* The strings edits are made of.
EditStrings == {<<>>, <<"a">>, <<"b">>, <<"a", "b">>}
Edits == {Edit(o, n, r) : o \in EditStrings, n \in EditStrings, r \in BOOLEAN} 
EditLists == UNION {[1..k -> Edits] : k \in 0..MaxEdits}

\* The paths the direct calls use: the spellings of /p, the directory, the
\* relative path.
DirectPaths == {"/p", "/d/../p", "/d", "p"}

ReadCall ==
    /\ last.tool = "none"
    /\ \E path \in DirectPaths, kind \in ReadKinds :
            Effect("read_tool", [NoCall EXCEPT !.path = path],
               read_tool_kind(fs, ledger, path, kind))

WriteCall ==
    /\ last.tool = "none"
    /\ \E path \in DirectPaths, c \in Texts(MaxLen) :
            Effect("write_tool", [NoCall EXCEPT !.path = path, !.content = c],
               write_tool(fs, ledger, path, c))

\* The edits edit_tool is called with: those of Edits and those with the
\* string 'aa', which overlaps itself in 'aaa'.
SingleEdits ==
    {Edit(o, n, r) : o \in EditStrings \cup {<<"a", "a">>},
                     n \in EditStrings \cup {<<"a", "a">>}, r \in BOOLEAN}

EditCall ==
    /\ last.tool = "none"
    /\ \E path \in DirectPaths, e \in SingleEdits :
            Effect("edit_tool",
               [NoCall EXCEPT !.path = path, !.old_string = e.old_string,
                              !.new_string = e.new_string, !.replace_all = e.replace_all],
               edit_tool(fs, ledger, path, e.old_string, e.new_string, e.replace_all))

\* Every edit list on /p; on the other paths, whose calls end before the
\* edits are looked at, the lists of at most one edit.
MultiEditInputs ==
    {<<"/p", l>> : l \in EditLists}
    \cup {<<q, l>> : q \in DirectPaths \ {"/p"}, l \in {x \in EditLists : Len(x) <= 1}}

MultiEditCall ==
    /\ last.tool = "none"
    /\ \E in \in MultiEditInputs :
          LET path == in[1]
              edits == in[2]
          IN Effect("multi_edit_tool", [NoCall EXCEPT !.path = path, !.edits = edits],
               multi_edit_tool(fs, ledger, path, edits))

\* rm path: the file is gone; the ledger is the process's own memory and is
\* not touched.
RemoveFile ==
    \E p \in {"/p"} :
        /\ last.tool = "none"
        /\ fs[p].exists
        /\ fs' = [fs EXCEPT ![p] = NoFile]
        /\ last' = [NoCall EXCEPT !.tool = "rm", !.path = p, !.pre = fs, !.pre_ledger = ledger,
                                  !.out = Outcome(fs', ledger, TRUE, "")]
        /\ UNCHANGED <<ledger, agentvars, reads, threads, sidevars>>

\* The caller drops the result it looked at (result = ... is assigned anew).
DropResult ==
    /\ last.tool # "none"
    /\ last' = NoCall
    /\ UNCHANGED <<fs, ledger, agentvars, reads, threads, sidevars>>

\* ------------------------------- the ledger's functions called concurrently
\* (sub-agents run in threads of the one process, tasktool.py:87-89; the
\* set is module-level and no lock is taken, edittool.py:6-14)

Threads == 1..MaxThreads

\* The paths the concurrent callers pass: two spellings of /p, and /q.
LedgerPaths == {"/p", "/d/../p", "/q"}

\* ------------------------------------------------------- the fetch cache

\* URLCache(cache_duration=900): the seconds an entry is served.
cache_duration == 900

\* The URLs fetched.  _get_cache_path gives each its own file (the md5 of
\* the URL names it).
Urls == {"https://u", "https://v"}

\* The page texts cached.
Contents == {<<"a">>, <<"b">>}

\* The file of a URL: none; one that json.load or the subscripts
\* ['timestamp'], ['content'] raise on; or a record written by set.
NoEntry == [kind |-> "absent", timestamp |-> 0, content |-> <<>>]
Corrupted == [kind |-> "corrupt", timestamp |-> 0, content |-> <<>>]
Entry(timestamp, content) == [kind |-> "json", timestamp |-> timestamp, content |-> content]

\* The test of an entry that expires one second late.
Expired_Late(now, timestamp) == now - timestamp > cache_duration + 1

\* time.time() - cache_data['timestamp'] > self.cache_duration
Expired(now, timestamp) == now - timestamp > cache_duration

\* URLCache.get(url) at time now: whether content is returned (None is a
\* miss), the content, and the files afterwards.  os.remove succeeds.
get(files, now, url) ==
    LET e == files[url]
        Miss(after) == [hit |-> FALSE, content |-> <<>>, files |-> after]
    IN CASE e.kind = "absent" -> Miss(files)
         [] e.kind = "corrupt" -> Miss([files EXCEPT ![url] = NoEntry])
         [] OTHER ->
               IF Expired(now, e.timestamp)
               THEN Miss([files EXCEPT ![url] = NoEntry])
               ELSE [hit |-> TRUE, content |-> e.content, files |-> files]

\* How a set can end: the file is written; open raised and nothing is
\* changed; json.dump raised after open truncated the file.  Either
\* exception is swallowed.
SetOutcomes == {"written", "open_failed", "dump_failed"}

\* URLCache.set(url, content) at time now: the files afterwards.
set(files, now, url, content, outcome) ==
    CASE outcome = "written" -> [files EXCEPT ![url] = Entry(now, content)]
      [] outcome = "dump_failed" -> [files EXCEPT ![url] = Corrupted]
      [] OTHER -> files

\* No call on the cache yet.
NoOp == [op |-> "none", url |-> "", hit |-> FALSE, content |-> <<>>, again |-> FALSE]

\* The seconds that pass between two calls.
Steps == {450, 451}

\* ------------------------------------------------------ _fetch_url_content

\* The URLs fetched: a page under its https and its http form.
FetchUrls == {"https://u", "http://u"}

\* _normalize_url: http:// at the start becomes https://.
_normalize_url(url) == IF url = "http://u" THEN "https://u" ELSE url

\* What requests.get and raise_for_status come to: a page (its text
\* stripped, possibly empty), the reader's notice of a redirect to another
\* host, or a RequestException.
Pages == Contents \cup {<<>>}
Responses ==
    {[kind |-> "page", text |-> t] : t \in Pages}
    \cup {[kind |-> "redirect", text |-> <<>>], [kind |-> "error", text |-> <<>>]}

\* The dict _fetch_url_content returns.
FetchResult(success, content, cached, is_redirect) ==
    [success |-> success, content |-> content, cached |-> cached,
     is_redirect |-> is_redirect]

\* No fetch yet; no network delivery yet.
NoFetch == [url |-> "", result |-> FetchResult(FALSE, <<>>, FALSE, FALSE), requests |-> 0]
NoOrigin == [known |-> FALSE, content |-> <<>>, at |-> 0]

\* `if cached_content:` is true of a str that is not empty (None and '' are
\* false).
Truthy(r) == r.hit /\ r.content # <<>>

\* _fetch_url_content(url) at time now, the network answering response and
\* the cache write ending in outcome: the dict returned, the cache files
\* afterwards, and the requests made.
_fetch_url_content(files, now, url, response, outcome) ==
    LET normalized_url == _normalize_url(url)
        r == get(files, now, normalized_url)
    IN IF Truthy(r)
       THEN [result |-> FetchResult(TRUE, r.content, TRUE, FALSE), files |-> r.files,
             requests |-> 0]
       ELSE CASE response.kind = "error" ->
                    [result |-> FetchResult(FALSE, <<>>, FALSE, FALSE), files |-> r.files,
                     requests |-> 1]
              [] response.kind = "redirect" ->
                    [result |-> FetchResult(FALSE, <<>>, FALSE, TRUE), files |-> r.files,
                     requests |-> 1]
              [] OTHER ->
                    [result |-> FetchResult(TRUE, response.text, FALSE, FALSE),
                     files |-> set(r.files, now, normalized_url, response.text, outcome),
                     requests |-> 1]

\* ------------------------------------------------------ the shell command

\* The timeout argument: None, or milliseconds.
None == -1
\* The call leaves the argument out.
Absent == -2
Timeouts == {Absent, None, 1000, 2000, 120000, 600000, 600001, 700000}

\* The parameter's value: the default of the signature when left out.
TimeoutArgument(timeout) == IF timeout = Absent THEN 120000 ELSE timeout

\* A validation that does not cap the timeout.
timeout_seconds_NoCap(timeout) ==
    IF timeout = None THEN 120000 ELSE timeout

\* The milliseconds subprocess.run waits: 120000 for None, at most 600000
\* (the code divides by 1000.0 and passes seconds).
timeout_seconds(timeout) ==
    IF timeout = None THEN 120000
    ELSE IF timeout > 600000 THEN 600000 ELSE timeout

\* What a command does, step by step: it writes a character to stdout or
\* it sleeps for some milliseconds.
Echo(c) == [do |-> "echo", out |-> c, ms |-> 0]
Sleep(ms) == [do |-> "sleep", out |-> "", ms |-> ms]
CommandSteps == {Echo("a"), Echo("b"), Sleep(1000), Sleep(5000), Sleep(650000)}

\* The commands: "sleep 5" is <<Sleep(5000)>>, "echo a; sleep 5" is
\* <<Echo("a"), Sleep(5000)>>.
Commands == UNION {[1..n -> CommandSteps] : n \in 1..MaxSteps}

\* The dict bash_tool returns; stderr is "" or names what went wrong.
BashResult(success, stdout, stderr, return_code) ==
    [success |-> success, stdout |-> stdout, stderr |-> stderr, return_code |-> return_code]
NoResult == BashResult(FALSE, <<>>, "none", 0)

\* No bash_tool call under way.
NoProc ==
    [pc |-> "none", command |-> <<>>, timeout |-> None, timeout_seconds |-> 0, i |-> 1,
     written |-> <<>>, elapsed |-> 0, runs |-> 0, result |-> NoResult]

\* ---------------------------------------------------------- binary_search

\* The integers in the lists; the targets also lie one below and one above.
Values == 0..MaxVal
Targets == -1..(MaxVal + 1)

\* The ascending-sorted lists (equal neighbours allowed).  arr[i] of the
\* code is arr[i + 1] here.
SortedLists ==
    UNION {{a \in [1..n -> Values] : \A i \in 1..(n - 1) : a[i] <= a[i + 1]} : n \in 0..MaxArr}

\* mid = (left + right) // 2
mid(left, right) == (left + right) \div 2

\* An iteration that moves left to mid, not past it.
Iterate_LeftToMid(arr, target, left, right) ==
    LET m == mid(left, right)
    IN IF arr[m + 1] = target THEN [left |-> left, right |-> right, done |-> TRUE, result |-> m]
       ELSE IF arr[m + 1] < target
            THEN [left |-> m, right |-> right, done |-> FALSE, result |-> -1]
            ELSE [left |-> left, right |-> m - 1, done |-> FALSE, result |-> -1]

\* One iteration of the while loop, entered with left <= right: return mid,
\* or narrow to the right or the left half.
Iterate(arr, target, left, right) ==
    LET m == mid(left, right)
    IN IF arr[m + 1] = target THEN [left |-> left, right |-> right, done |-> TRUE, result |-> m]
       ELSE IF arr[m + 1] < target
            THEN [left |-> m + 1, right |-> right, done |-> FALSE, result |-> -1]
            ELSE [left |-> left, right |-> m - 1, done |-> FALSE, result |-> -1]

\* No binary_search call under way.
NoSearch ==
    [pc |-> "none", arr |-> <<>>, target |-> 0, left |-> 0, right |-> 0, result |-> -1,
     iterations |-> 0]  \* iterations: passes of the loop, counted up to MaxArr

\* A caller outside both functions.
Idle == [pc |-> "idle", path |-> "", result |-> FALSE]

\* No caller is inside either function; no mark was begun or ended.
NoThreads == [at |-> [t \in Threads |-> Idle], begun |-> {}, ended |-> {}]

Init ==
    /\ fs = [p \in Files |-> IF p = "/p" THEN File(<<"a">>) ELSE NoFile]
    /\ ledger = {}
    /\ last = NoCall
    /\ agents = <<NewAgent(TRUE)>>
    /\ reqlog = <<>>
    /\ turns = 0
    /\ reads = {}
    /\ threads = NoThreads
    /\ cache_dir = [u \in Urls |-> NoEntry]
    /\ clock = 0
    /\ lastop = NoOp
    /\ missed = [u \in Urls |-> ""]
    /\ proc = NoProc
    /\ search = NoSearch
    /\ llm_stream = NoStream
    /\ fetched = NoFetch
    /\ origin = [u \in Urls |-> NoOrigin]

NextTools == ReadCall \/ WriteCall \/ EditCall \/ MultiEditCall \/ RemoveFile \/ DropResult

SpecTools == Init /\ [][NextTools]_vars

\* ------------------------------------------------- the agent's steps
\* The agent that runs is the last of agents; the ones before it wait inside
\* their task_tool call.

Depth == Len(agents)
Top == agents[Depth]
SetTop(a) == [agents EXCEPT ![Depth] = a]

\* Model calls left.
TurnsLeft == MaxTurns - turns

\* mainloop: the user enters a query and reason_and_act(user_input) starts.
StartQuery ==
    /\ UNCHANGED <<threads, sidevars>>
    /\ Depth = 1
    /\ Top.pc \in {"idle", "returned"}
    /\ TurnsLeft >= 1
    /\ agents' = SetTop(Begin(Top))
    /\ last' = NoCall
    /\ UNCHANGED <<fs, ledger, reqlog, turns, reads>>

\* reasoning(): one model call.  It raises, or its chunks are gathered, the
\* text, if any, is appended as an AIMessage and gathered is returned.  A
\* turn carries requests only while every waiting agent can still be given a
\* turn without requests.
Reasoning ==
    /\ UNCHANGED <<threads, sidevars>>
    /\ Top.pc = "reasoning"
    /\ TurnsLeft >= 1
    /\ turns' = turns + 1
    /\ last' = NoCall
    /\ UNCHANGED <<fs, ledger, reads>>
    /\ \/ /\ agents' = SetTop(Raise(Top, "model_error"))
          /\ UNCHANGED reqlog
       \/ \E stream \in Streams :
             LET gathered == Gather(stream)
                 n == gathered.calls
             IN /\ Len(reqlog) + n <= MaxRequests
                /\ n > 0 => TurnsLeft - 1 >= Depth
                /\ agents' = SetTop(
                      [Top EXCEPT !.message_history = AppendGathered(@, gathered),
                                  !.content = gathered.content,
                                  !.request = NoRequest,
                                  !.answer = NoAnswer,
                                  !.tool_calls = [i \in 1..n |-> Len(reqlog) + i],
                                  !.pc = "reasoned"])
                /\ reqlog' = reqlog \o [i \in 1..n |-> [asked |-> 0, ran |-> 0]]

\* The loop of reason_and_act with a turn without requests taken for one
\* with requests: reasoning is called again.
LoopStep_NeverBreaks(a) ==
    IF a.tool_calls # <<>>
    THEN [a EXCEPT !.pc = "resolve", !.k = 1, !.base = Len(a.message_history)]
    ELSE [a EXCEPT !.pc = "reasoning"]

\* The loop returning the text of the first AIMessage of the history.
LoopStep_ReturnsFirstText(a) ==
    IF a.tool_calls # <<>>
    THEN [a EXCEPT !.pc = "resolve", !.k = 1, !.base = Len(a.message_history)]
    ELSE [a EXCEPT !.pc = "returned",
                   !.ret = LET ai == {i \in 1..Len(a.message_history) :
                                         a.message_history[i].role = "ai"}
                           IN IF ai = {} THEN <<>>
                              ELSE a.message_history[CHOOSE i \in ai : \A j \in ai : i <= j].text]

\* if reasoning_result.tool_calls: acting(...) else: break; return
\* reasoning_result.content
LoopStep(a) ==
    IF a.tool_calls # <<>>
    THEN [a EXCEPT !.pc = "resolve", !.k = 1, !.base = Len(a.message_history)]
    ELSE [a EXCEPT !.pc = "returned", !.ret = a.content]

LoopDecide ==
    /\ UNCHANGED <<threads, sidevars>>
    /\ Top.pc = "reasoned"
    /\ agents' = SetTop(LoopStep(Top))
    /\ last' = NoCall
    /\ UNCHANGED <<fs, ledger, reqlog, turns, reads>>

\* An acting that resolves the tool after the prompt (the prompt is counted
\* for a name outside the toolset too).
Resolve_AsksFirst ==
    /\ UNCHANGED <<threads, sidevars>>
    /\ Top.pc = "resolve"
    /\ last' = NoCall
    /\ UNCHANGED <<fs, ledger, turns, reads>>
    /\ \E req \in ToolRequests :
          LET id == Top.tool_calls[Top.k]
          IN /\ req.name = "task_tool" => TurnsLeft >= Depth + 1
             /\ reqlog' = [reqlog EXCEPT ![id].asked = @ + 1]
             /\ IF req.name \notin toolset
                THEN agents' = SetTop(Raise([Top EXCEPT !.request = [req EXCEPT !.id = id],
                                                        !.answer = NoAnswer], "KeyError"))
                ELSE agents' = SetTop([Top EXCEPT !.request = [req EXCEPT !.id = id],
                                                  !.answer = NoAnswer, !.pc = "prompt"])

\* acting, the head of an iteration: the tool is looked up (KeyError when the
\* name is not in the toolset) and the approval prompt is shown.  A
\* delegation is requested only while the sub-agent can be given a turn.
Resolve ==
    /\ UNCHANGED <<threads, sidevars>>
    /\ Top.pc = "resolve"
    /\ last' = NoCall
    /\ UNCHANGED <<fs, ledger, turns, reads>>
    /\ \E req \in ToolRequests :
          LET id == Top.tool_calls[Top.k]
          IN /\ req.name = "task_tool" => TurnsLeft >= Depth + 1
             /\ IF req.name \notin toolset
                THEN /\ agents' = SetTop(Raise([Top EXCEPT !.request = [req EXCEPT !.id = id],
                                                          !.answer = NoAnswer], "KeyError"))
                     /\ UNCHANGED reqlog
                ELSE /\ agents' = SetTop([Top EXCEPT !.request = [req EXCEPT !.id = id],
                                                    !.answer = NoAnswer, !.pc = "prompt"])
                     /\ reqlog' = [reqlog EXCEPT ![id].asked = @ + 1]

\* input() returns.  An approval goes on to tool.invoke; anything else makes
\* the rejection text the result, which is appended as the tool message.
Answer ==
    /\ UNCHANGED <<threads, sidevars>>
    /\ Top.pc = "prompt"
    /\ last' = NoCall
    /\ UNCHANGED <<fs, ledger, reqlog, turns, reads>>
    /\ \E raw \in Answers :
          IF Approves(raw)
          THEN agents' = SetTop([Top EXCEPT !.answer = raw, !.pc = "invoke"])
          ELSE agents' = SetTop(Finish([Top EXCEPT !.answer = raw], "rejected", <<>>,
                                       Failure(fs, ledger, "rejected")))

\* tool.invoke with a ledger per agent: a sub-agent's tools consult and mark
\* a ledger of their own, empty at every call, and leave the process's one
\* as it is.
Invoke_PrivateLedger ==
    /\ UNCHANGED <<threads, sidevars>>
    /\ Top.pc = "invoke"
    /\ Top.request.name # "task_tool" \/ Top.request.malformed
    /\ UNCHANGED turns
    /\ reqlog' = [reqlog EXCEPT ![Top.request.id].ran = @ + 1]
    /\ IF Top.request.malformed
       THEN /\ agents' = SetTop(Raise(Top, "ValidationError"))
            /\ last' = NoCall
            /\ UNCHANGED <<fs, ledger, reads>>
       ELSE LET out == RunTool(fs, IF Depth > 1 THEN {} ELSE ledger, Top.request)
            IN /\ fs' = out.fs
               /\ ledger' = IF Depth > 1 THEN ledger ELSE out.ledger
               /\ last' = Called(Top.request.name,
                                 [NoCall EXCEPT !.path = Top.request.path,
                                                !.old_string = Top.request.old_string,
                                                !.new_string = Top.request.new_string,
                                                !.replace_all = Top.request.replace_all,
                                                !.edits = Top.request.edits,
                                                !.content = Top.request.content],
                                 out)
               /\ reads' = Reads(Top.request.name, Top.request.path, out)
               /\ agents' = SetTop(Finish(Top, ResultTag(out), <<>>, out))

\* tool.invoke(tool_input) of a tool that returns at once, and the rest of
\* the iteration: args that fail the schema raise; otherwise the tool runs
\* and its content is appended as the tool message.
Invoke ==
    /\ UNCHANGED <<threads, sidevars>>
    /\ Top.pc = "invoke"
    /\ Top.request.name # "task_tool" \/ Top.request.malformed
    /\ UNCHANGED turns
    /\ reqlog' = [reqlog EXCEPT ![Top.request.id].ran = @ + 1]
    /\ IF Top.request.malformed
       THEN /\ agents' = SetTop(Raise(Top, "ValidationError"))
            /\ last' = NoCall
            /\ UNCHANGED <<fs, ledger, reads>>
       ELSE LET out == RunTool(fs, ledger, Top.request)
            IN /\ fs' = out.fs
               /\ ledger' = out.ledger
               /\ last' = Called(Top.request.name,
                                 [NoCall EXCEPT !.path = Top.request.path,
                                                !.old_string = Top.request.old_string,
                                                !.new_string = Top.request.new_string,
                                                !.replace_all = Top.request.replace_all,
                                                !.edits = Top.request.edits,
                                                !.content = Top.request.content],
                                 out)
               /\ reads' = Reads(Top.request.name, Top.request.path, out)
               /\ agents' = SetTop(Finish(Top, ResultTag(out), <<>>, out))

\* task_tool that submits the sub-run and returns without future.result():
\* the caller goes on with acting while the sub-agent runs.
InvokeTask_NoWait ==
    /\ UNCHANGED <<threads, sidevars>>
    /\ Top.pc = "invoke"
    /\ Top.request.name = "task_tool" /\ ~Top.request.malformed
    /\ reqlog' = [reqlog EXCEPT ![Top.request.id].ran = @ + 1]
    /\ agents' = Append(SetTop(Advance(Top)), Begin(NewAgent(FALSE)))
    /\ last' = NoCall
    /\ UNCHANGED <<fs, ledger, turns, reads>>

\* task_tool up to future.result(): a new ReactAgent(is_main=False) runs
\* reason_and_act(prompt) while the caller waits.
InvokeTask ==
    /\ UNCHANGED <<threads, sidevars>>
    /\ Top.pc = "invoke"
    /\ Top.request.name = "task_tool" /\ ~Top.request.malformed
    /\ reqlog' = [reqlog EXCEPT ![Top.request.id].ran = @ + 1]
    /\ agents' = Append(SetTop([Top EXCEPT !.pc = "awaiting"]), Begin(NewAgent(FALSE)))
    /\ last' = NoCall
    /\ UNCHANGED <<fs, ledger, turns, reads>>

\* task_tool without the try: the sub-run's exception leaves task_tool and,
\* through acting, the caller's reason_and_act.
TaskResult_Propagates(parent, sub) ==
    IF sub.pc = "returned"
    THEN Finish(parent, "task_completed", sub.ret, Outcome(fs, ledger, TRUE, ""))
    ELSE Raise(parent, sub.exc)

\* task_tool handing back the whole conversation of the sub-run: what the
\* sub-agent appended after its query is appended to the caller's history
\* before the report.
TaskResult_SharesHistory(parent, sub) ==
    LET own == Len(Begin(NewAgent(FALSE)).message_history)
        merged == [parent EXCEPT !.message_history =
                       @ \o SubSeq(sub.message_history, own + 1, Len(sub.message_history))]
    IN IF sub.pc = "returned"
       THEN Finish(merged, "task_completed", sub.ret, Outcome(fs, ledger, TRUE, ""))
       ELSE Finish(merged, "task_failed", <<>>, Failure(fs, ledger, sub.exc))

\* The caller's side of the end of a sub-run: task_tool returns the report
\* (completed with the sub-run's value, or failed with the exception's
\* text) and acting appends its content as the tool message.
TaskResult(parent, sub) ==
    IF sub.pc = "returned"
    THEN Finish(parent, "task_completed", sub.ret, Outcome(fs, ledger, TRUE, ""))
    ELSE Finish(parent, "task_failed", <<>>, Failure(fs, ledger, sub.exc))

\* The sub-agent's reason_and_act has returned or raised: future.result()
\* hands it to task_tool and the sub-agent is gone.
TaskReturn ==
    /\ UNCHANGED <<threads, sidevars>>
    /\ Depth > 1
    /\ Top.pc \in {"returned", "raised"}
    /\ agents' = [i \in 1..(Depth - 1) |->
                     IF i = Depth - 1 THEN TaskResult(agents[i], Top) ELSE agents[i]]
    /\ last' = Called("task_tool", NoCall,
                      IF Top.pc = "returned" THEN Outcome(fs, ledger, TRUE, "")
                      ELSE Failure(fs, ledger, Top.exc))
    /\ UNCHANGED <<fs, ledger, reqlog, turns, reads>>

Next ==
    \/ StartQuery
    \/ Reasoning
    \/ LoopDecide
    \/ Resolve
    \/ Answer
    \/ Invoke
    \/ InvokeTask
    \/ TaskReturn

Spec == Init /\ [][Next]_vars

\* Every model call, approval prompt and tool execution returns: the steps
\* of a running reason_and_act are taken; the user need not enter a query.
Running ==
    Reasoning \/ LoopDecide \/ Resolve \/ Answer \/ Invoke \/ InvokeTask \/ TaskReturn

FairSpec == Spec /\ WF_vars(Running)

\* ------------------------------------------ steps of the concurrent callers
\* set.add and the membership test are each one step: CPython runs each as
\* one C call on the set, under the interpreter lock or the set's own lock.

\* A thread calls mark_file_as_read(path).
BeginMark ==
    \E t \in Threads, path \in LedgerPaths :
        /\ threads.at[t].pc = "idle"
        /\ threads' = [threads EXCEPT !.at[t] = [Idle EXCEPT !.pc = "marking", !.path = path],
                                      !.begun = @ \cup {AbsPath(path)}]
        /\ UNCHANGED <<fs, ledger, last, agents, reqlog, turns, reads, sidevars>>

\* A mark that rebinds the tracker to a new set holding its path, built
\* without the marks other callers made meanwhile.
EndMark_Rebinds ==
    \E t \in Threads :
        /\ threads.at[t].pc = "marking"
        /\ ledger' = {AbsPath(threads.at[t].path)}
        /\ threads' = [threads EXCEPT !.at[t] = Idle,
                                      !.ended = @ \cup {AbsPath(threads.at[t].path)}]
        /\ UNCHANGED <<fs, last, agents, reqlog, turns, reads, sidevars>>

\* _read_files_tracker.add(os.path.abspath(file_path)) and the return.
EndMark ==
    \E t \in Threads :
        /\ threads.at[t].pc = "marking"
        /\ ledger' = mark_file_as_read(ledger, threads.at[t].path)
        /\ threads' = [threads EXCEPT !.at[t] = Idle,
                                      !.ended = @ \cup {AbsPath(threads.at[t].path)}]
        /\ UNCHANGED <<fs, last, agents, reqlog, turns, reads, sidevars>>

\* A thread calls is_file_read(path).
BeginIsRead ==
    \E t \in Threads, path \in LedgerPaths :
        /\ threads.at[t].pc = "idle"
        /\ threads' = [threads EXCEPT !.at[t] = [Idle EXCEPT !.pc = "testing", !.path = path]]
        /\ UNCHANGED <<fs, ledger, last, agents, reqlog, turns, reads, sidevars>>

\* os.path.abspath(file_path) in _read_files_tracker: the value to return.
EndIsRead ==
    \E t \in Threads :
        /\ threads.at[t].pc = "testing"
        /\ threads' = [threads EXCEPT !.at[t].pc = "tested",
                                      !.at[t].result = is_file_read(ledger, threads.at[t].path)]
        /\ UNCHANGED <<fs, ledger, last, agents, reqlog, turns, reads, sidevars>>

\* The caller of is_file_read takes the value.
TakeResult ==
    \E t \in Threads :
        /\ threads.at[t].pc = "tested"
        /\ threads' = [threads EXCEPT !.at[t] = Idle]
        /\ UNCHANGED <<fs, ledger, last, agents, reqlog, turns, reads, sidevars>>

NextLedger == BeginMark \/ EndMark \/ BeginIsRead \/ EndIsRead \/ TakeResult

SpecLedger == Init /\ [][NextLedger]_vars
\* ------------------------------------------------- calls on the fetch cache
corevars == <<fs, ledger, last, agents, reqlog, turns, reads, threads>>

\* cached_content = _cache.get(normalized_url)
CacheGet ==
    \E u \in Urls :
        LET r == get(cache_dir, clock, u)
            e == cache_dir[u]
        IN /\ cache_dir' = r.files
           /\ lastop' = [op |-> "get", url |-> u, hit |-> r.hit, content |-> r.content,
                          again |-> missed[u] # ""]
           /\ missed' = IF e.kind = "absent" \/ r.hit THEN missed
                         ELSE [missed EXCEPT ![u] =
                                  IF e.kind = "corrupt" THEN "corrupt" ELSE "expired"]
           /\ UNCHANGED <<corevars, clock, proc, search, llm_stream, fetchvars>>

\* _cache.set(normalized_url, content)
CacheSet ==
    \E u \in Urls, c \in Contents, outcome \in SetOutcomes :
        /\ cache_dir' = set(cache_dir, clock, u, c, outcome)
        /\ lastop' = [NoOp EXCEPT !.op = "set", !.url = u, !.content = c]
        /\ missed' = [missed EXCEPT ![u] = ""]
        /\ UNCHANGED <<corevars, clock, proc, search, llm_stream, fetchvars>>

\* Time passes between two calls.
Tick ==
    \E d \in Steps :
        /\ clock + d <= MaxClock
        /\ clock' = clock + d
        /\ UNCHANGED <<corevars, cache_dir, lastop, missed, proc, search, llm_stream, fetchvars>>

NextCache == CacheGet \/ CacheSet \/ Tick

SpecCache == Init /\ [][NextCache]_vars
\* -------------------------------------------------------------- bash_tool
\* bash_tool.invoke({"command": ..., "timeout": ...}) reaches subprocess.run.
BashCall ==
    \E command \in Commands, timeout \in Timeouts :
        /\ proc.pc = "none"
        /\ proc' = [NoProc EXCEPT !.pc = "running", !.command = command,
                                   !.timeout = timeout,
                                   !.timeout_seconds =
                                       timeout_seconds(TimeoutArgument(timeout)),
                                   !.runs = 1]
        /\ UNCHANGED <<corevars, cachevars, search, llm_stream, fetchvars>>

\* The command writes to its stdout; the pipe of capture_output takes it.
BashEcho ==
    /\ proc.pc = "running"
    /\ proc.i <= Len(proc.command)
    /\ proc.command[proc.i].do = "echo"
    /\ proc' = [proc EXCEPT !.written = Append(@, proc.command[proc.i].out), !.i = @ + 1]
    /\ UNCHANGED <<corevars, cachevars, search, llm_stream, fetchvars>>

\* The command sleeps and wakes before the timeout.
BashSleep ==
    /\ proc.pc = "running"
    /\ proc.i <= Len(proc.command)
    /\ proc.command[proc.i].do = "sleep"
    /\ proc.elapsed + proc.command[proc.i].ms <= proc.timeout_seconds
    /\ proc' = [proc EXCEPT !.elapsed = @ + proc.command[proc.i].ms, !.i = @ + 1]
    /\ UNCHANGED <<corevars, cachevars, search, llm_stream, fetchvars>>

\* The command ends with a return code and subprocess.run returns.
BashExit ==
    \E returncode \in {0, 1} :
        /\ proc.pc = "running"
        /\ proc.i > Len(proc.command)
        /\ proc' = [proc EXCEPT !.pc = "returned",
                                 !.result = BashResult(returncode = 0, proc.written, "",
                                                       returncode)]
        /\ UNCHANGED <<corevars, cachevars, search, llm_stream, fetchvars>>

\* The timeout passes while the command sleeps: subprocess.run kills it and
\* raises TimeoutExpired, and bash_tool returns the dict of its handler.
BashTimeout ==
    /\ proc.pc = "running"
    /\ proc.i <= Len(proc.command)
    /\ proc.command[proc.i].do = "sleep"
    /\ proc.elapsed + proc.command[proc.i].ms >= proc.timeout_seconds
    /\ proc' = [proc EXCEPT !.pc = "returned",
                             !.elapsed = proc.timeout_seconds,
                             !.result = BashResult(FALSE, <<>>, "timed out", -1)]
    /\ UNCHANGED <<corevars, cachevars, search, llm_stream, fetchvars>>

NextBash == BashCall \/ BashEcho \/ BashSleep \/ BashExit \/ BashTimeout

SpecBash == Init /\ [][NextBash]_vars
\* ---------------------------------------------------- binary_search steps
\* binary_search(arr, target) is called: left, right = 0, len(arr) - 1.
SearchCall ==
    \E arr \in SortedLists, target \in Targets :
        /\ search.pc = "none"
        /\ search' = [NoSearch EXCEPT !.pc = "loop", !.arr = arr, !.target = target,
                                       !.left = 0, !.right = Len(arr) - 1]
        /\ UNCHANGED <<corevars, cachevars, proc, llm_stream, fetchvars>>

\* The test of the while loop and one iteration, or the return of -1.
SearchStep ==
    /\ search.pc = "loop"
    /\ IF search.left <= search.right
       THEN LET r == Iterate(search.arr, search.target, search.left, search.right)
            IN search' = [search EXCEPT !.left = r.left, !.right = r.right,
                                        !.result = r.result,
                                        !.iterations = IF @ < MaxArr THEN @ + 1 ELSE @,
                                        !.pc = IF r.done THEN "returned" ELSE "loop"]
       ELSE search' = [search EXCEPT !.result = -1, !.pc = "returned"]
    /\ UNCHANGED <<corevars, cachevars, proc, llm_stream, fetchvars>>

NextSearch == SearchCall \/ SearchStep

\* The loop runs on once the function is called.
SpecSearch == Init /\ [][NextSearch]_vars /\ WF_vars(SearchStep)

\* ------------------------------------------- reasoning(), chunk by chunk
\* llm.stream(self.message_history) starts to yield; first = True.
StreamCall ==
    \E chunks \in ChunkStreams :
        /\ llm_stream.pc = "none"
        /\ llm_stream' = [NoStream EXCEPT !.pc = "streaming", !.chunks = chunks]
        /\ UNCHANGED <<corevars, cachevars, proc, search, fetchvars>>

\* One pass of the for loop: gathered = chunk, or gathered = gathered + chunk.
StreamChunk ==
    /\ llm_stream.pc = "streaming"
    /\ llm_stream.i < Len(llm_stream.chunks)
    /\ LET chunk == llm_stream.chunks[llm_stream.i + 1]
       IN llm_stream' = [llm_stream EXCEPT
                            !.i = @ + 1,
                            !.first = FALSE,
                            !.gathered = IF llm_stream.first THEN chunk
                                         ELSE Gather(<<llm_stream.gathered, chunk>>)]
    /\ UNCHANGED <<corevars, cachevars, proc, search, fetchvars>>

\* The stream has ended: the AIMessage is appended if gathered has text,
\* and gathered is returned.
StreamEnd ==
    /\ llm_stream.pc = "streaming"
    /\ llm_stream.i = Len(llm_stream.chunks)
    /\ llm_stream' = [llm_stream EXCEPT
                         !.pc = "returned",
                         !.appended = AppendGathered(<<>>, llm_stream.gathered)]
    /\ UNCHANGED <<corevars, cachevars, proc, search, fetchvars>>

NextStream == StreamCall \/ StreamChunk \/ StreamEnd

SpecStream == Init /\ [][NextStream]_vars

\* ------------------------------------------------------ calls of the fetch
\* _fetch_url_content(url).  lastop and missed follow the direct calls on
\* the cache only.
Fetch ==
    \E url \in FetchUrls, response \in Responses, outcome \in SetOutcomes :
        LET f == _fetch_url_content(cache_dir, clock, url, response, outcome)
            n == _normalize_url(url)
        IN /\ cache_dir' = f.files
           /\ fetched' = [url |-> url, result |-> f.result, requests |-> f.requests]
           /\ origin' = IF f.result.success /\ ~f.result.cached
                         THEN [origin EXCEPT ![n] = [known |-> TRUE,
                                                     content |-> f.result.content,
                                                     at |-> clock]]
                         ELSE origin
           /\ UNCHANGED <<corevars, clock, lastop, missed, proc, search, llm_stream>>

NextFetch == Fetch \/ Tick

SpecFetch == Init /\ [][NextFetch]_vars

\* ================================================================ claims

\* The places where t occurs in s; an empty t occurs before every character
\* and at the end.  (No string of EditStrings overlaps itself, so the number
\* of places is the number of non-overlapping occurrences.)
Places(s, t) == {i \in 1..(Len(s) + 1) : MatchAt(s, t, i)}

\* An edit is invalid against content c: old equals new, old is absent, or
\* old occurs more than once and replace_all is false.
InvalidEdit(c, e) ==
    \/ e.old_string = e.new_string
    \/ Places(c, e.old_string) = {}
    \/ Cardinality(Places(c, e.old_string)) > 1 /\ ~e.replace_all

\* The edit list holds an edit that is invalid against the content as the
\* edits before it left it.
RECURSIVE HasInvalidEdit(_, _)
HasInvalidEdit(c, edits) ==
    IF edits = <<>> THEN FALSE
    ELSE \/ InvalidEdit(c, Head(edits))
         \/ HasInvalidEdit(IF Head(edits).replace_all
                           THEN StrReplaceAll(c, Head(edits).old_string, Head(edits).new_string)
                           ELSE StrReplaceFirst(c, Head(edits).old_string, Head(edits).new_string),
                           Tail(edits))

\* The last call addressed a regular file that existed and was marked read.
OnReadExistingFile ==
    /\ ~IsDir(last.path)
    /\ last.pre[AbsPath(last.path)].exists
    /\ AbsPath(last.path) \in last.pre_ledger

\* C1: a multi_edit_tool call on an existing, already-read file whose edit
\* list holds an invalid edit returns success=false and leaves every file as
\* it was: nothing is written, the valid edits before the failing one
\* included.
C1_InvalidEditLeavesFileUnchanged ==
    (/\ last.tool = "multi_edit_tool"
     /\ OnReadExistingFile
     /\ HasInvalidEdit(last.pre[AbsPath(last.path)].content, last.edits))
    => (/\ ~last.out.success
        /\ fs = last.pre
        /\ last.out.writes = 0)

\* C1's case: the second edit of a list fails after a valid first edit that
\* would have changed the file.
C1_Witness ==
    /\ last.tool = "multi_edit_tool"
    /\ OnReadExistingFile
    /\ IsAbs(last.path)
    /\ Len(last.edits) = 2
    /\ ~InvalidEdit(last.pre[AbsPath(last.path)].content, last.edits[1])
    /\ last.out.failed_edit = 2
    /\ last.out.scratch # last.pre[AbsPath(last.path)].content
    /\ ~last.out.success
    /\ fs = last.pre

\* C2: when the edit list passes the validation pass, the content the apply
\* pass writes is the scratch content the validation pass ended with, and
\* the file is written exactly once; a failing call writes nothing.
C2_AppliedContentIsScratch ==
    last.tool = "multi_edit_tool"
    => IF last.out.success
       THEN /\ last.out.final = last.out.scratch
            /\ fs[AbsPath(last.path)] = File(last.out.final)
            /\ last.out.writes = 1
       ELSE /\ last.out.writes = 0
            /\ fs = last.pre

\* The last call was an edit of a path: edit_tool, or multi_edit_tool with a
\* first old_string that is not empty.
LastIsEdit ==
    \/ last.tool = "edit_tool"
    \/ /\ last.tool = "multi_edit_tool"
       /\ last.edits # <<>>
       /\ last.edits[1].old_string # <<>>

\* The arguments of the last edit call are valid in themselves: no edit
\* replaces a string by itself.
LastEditArgsValid ==
    IF last.tool = "edit_tool" THEN last.old_string # last.new_string
    ELSE \A i \in 1..Len(last.edits) : last.edits[i].old_string # last.edits[i].new_string

\* C3: an edit_tool call, or a multi_edit_tool call whose first old_string
\* is not empty, on an absolute path that has not been marked read fails and
\* leaves every file unchanged, whether or not the path exists; with valid
\* edit arguments the failure reported is the read-first error.
C3_UnreadPathEditFails ==
    (/\ LastIsEdit
     /\ IsAbs(last.path)
     /\ AbsPath(last.path) \notin last.pre_ledger)
    => (/\ ~last.out.success
        /\ fs = last.pre
        /\ last.out.writes = 0
        /\ LastEditArgsValid => last.out.error = "read_first")

\* C3's case: an edit that would succeed on a read file (old_string present
\* once in an existing file) is refused with the read-first error.
C3_Witness ==
    /\ last.tool = "edit_tool"
    /\ IsAbs(last.path)
    /\ ~IsDir(last.path)
    /\ AbsPath(last.path) \notin last.pre_ledger
    /\ last.pre[AbsPath(last.path)].exists
    /\ Cardinality(Places(last.pre[AbsPath(last.path)].content, last.old_string)) = 1
    /\ last.old_string # last.new_string
    /\ last.out.error = "read_first"
    /\ fs = last.pre

\* The last call was an edit_tool call with a valid operation on an existing
\* regular file: old_string differs from new_string, occurs in the file, and
\* occurs once unless replace_all is set.
LastIsValidEditOfFile ==
    /\ last.tool = "edit_tool"
    /\ IsAbs(last.path)
    /\ ~IsDir(last.path)
    /\ last.pre[AbsPath(last.path)].exists
    /\ ~InvalidEdit(last.pre[AbsPath(last.path)].content,
                    Edit(last.old_string, last.new_string, last.replace_all))

\* C4: once a read_tool call on an absolute path has succeeded, every later
\* edit_tool call on that path with a valid operation succeeds (and writes
\* the replaced content), whatever reads, edits, writes, removals,
\* rejections, queries and sub-agent runs came in between.
C4_ReadThenEditSucceeds ==
    (LastIsValidEditOfFile /\ AbsPath(last.path) \in reads)
    => /\ last.out.success
       /\ fs[AbsPath(last.path)].exists
       /\ fs[AbsPath(last.path)].content # last.pre[AbsPath(last.path)].content

\* C4's case: a valid edit of a path read earlier succeeds as the third
\* request of the run, in a later turn than the first.
C4_Witness ==
    /\ LastIsValidEditOfFile
    /\ AbsPath(last.path) \in reads
    /\ last.out.success
    /\ Len(reqlog) = 3
    /\ turns >= 2

\* The answers of Answers that are 'y' or 'yes' once trimmed and lower-cased.
AffirmativeAnswers == {<<"y">>, <<" ", "Y", "E", "S", " ">>}

\* C5: in the main agent and in every sub-agent a tool is invoked only after
\* the prompt for that same request was shown and answered 'y' or 'yes'
\* (trimmed, lower-cased); after any other answer, the empty one included,
\* the request is not invoked; the tool's name plays no part.
C5_InvokedOnlyAfterApproval ==
    /\ [](\A i \in 1..Len(agents) :
            /\ agents[i].pc \in {"invoke", "awaiting"}
                  => /\ agents[i].answer \in AffirmativeAnswers
                     /\ reqlog[agents[i].request.id].asked = 1
            /\ agents[i].answer \notin AffirmativeAnswers \cup {NoAnswer}
                  => /\ agents[i].pc \notin {"invoke", "awaiting"}
                     /\ reqlog[agents[i].request.id].ran = 0)
    /\ [][\A id \in DOMAIN reqlog :
            reqlog'[id].ran > reqlog[id].ran
               => /\ agents[Len(agents)].pc = "invoke"
                  /\ agents[Len(agents)].request.id = id
                  /\ agents[Len(agents)].answer \in AffirmativeAnswers
                  /\ reqlog[id].asked = 1]_vars

\* C5's case: a sub-agent has run the read-only search tool after the answer
\* ' YES '.
C5_Witness ==
    /\ Len(agents) = 2
    /\ last.tool = "grep_tool"
    /\ agents[2].request.name = "grep_tool"
    /\ agents[2].answer = <<" ", "Y", "E", "S", " ">>
    /\ reqlog[agents[2].request.id].ran = 1

\* The message at position base + j of a's history is the tool message of
\* the j-th request of a's turn.
AnsweredInPlace(a, j) ==
    /\ a.base + j <= Len(a.message_history)
    /\ a.message_history[a.base + j].role = "tool"
    /\ a.message_history[a.base + j].id = a.tool_calls[j]

TodoListsOf(ags) == [i \in 1..Len(ags) |-> ags[i].todo_list]

\* The ids of the requests whose tool message, in the history of a living
\* agent, says the human rejected them.
RejectedIds ==
    UNION {{agents[i].message_history[j].id :
               j \in {m \in 1..Len(agents[i].message_history) :
                         agents[i].message_history[m].tag = "rejected"}} :
           i \in 1..Len(agents)}

\* C7: when the human rejects a request the tool is not executed, no file,
\* ledger entry or todo list changes, exactly one tool message that states
\* the rejection and carries the request's id is appended, and acting goes
\* on to the next request of the turn (or returns after the last); the
\* prompt of a request is never shown twice and a rejected request is never
\* run.
C7_RejectionIsFinal ==
    /\ [][(/\ agents[Len(agents)].pc = "prompt"
           /\ Len(agents') = Len(agents)
           /\ agents'[Len(agents)].answer \notin AffirmativeAnswers)
          => LET a == agents[Len(agents)]
                 b == agents'[Len(agents)]
             IN /\ fs' = fs
                /\ ledger' = ledger
                /\ reqlog' = reqlog
                /\ reqlog[a.request.id].ran = 0
                /\ TodoListsOf(agents') = TodoListsOf(agents)
                /\ b.message_history =
                      Append(a.message_history,
                             [role |-> "tool", tag |-> "rejected", text |-> <<>>,
                              id |-> a.request.id])
                /\ IF a.k < Len(a.tool_calls)
                   THEN b.pc = "resolve" /\ b.k = a.k + 1
                   ELSE b.pc = "reasoning"]_vars
    /\ [](\A id \in DOMAIN reqlog : reqlog[id].asked <= 1)
    /\ [](\A id \in RejectedIds : reqlog[id].asked = 1 /\ reqlog[id].ran = 0)

\* C7's case: the first of two requests was rejected, it was not run, and
\* the prompt of the second is showing.
C7_Witness ==
    /\ agents[1].pc = "prompt"
    /\ agents[1].k = 2
    /\ agents[1].message_history[Len(agents[1].message_history)].tag = "rejected"
    /\ agents[1].message_history[Len(agents[1].message_history)].id = agents[1].tool_calls[1]
    /\ reqlog[agents[1].tool_calls[1]] = [asked |-> 1, ran |-> 0]
    /\ reqlog[agents[1].tool_calls[2]].asked = 1

\* C8: when a reasoning turn yields no requests, reason_and_act returns that
\* turn's text in its next step: no prompt is shown, no tool is invoked, no
\* model call is made and nothing is appended; and a returned
\* reason_and_act makes no model call and shows no prompt.
C8_NoRequestsReturnsAtOnce ==
    /\ [][(agents[Len(agents)].pc = "reasoned" /\ agents[Len(agents)].tool_calls = <<>>)
          => /\ Len(agents') = Len(agents)
             /\ agents'[Len(agents)].pc = "returned"
             /\ agents'[Len(agents)].ret = agents[Len(agents)].content
             /\ agents'[Len(agents)].message_history = agents[Len(agents)].message_history
             /\ reqlog' = reqlog
             /\ turns' = turns
             /\ fs' = fs
             /\ ledger' = ledger]_vars
    /\ [][agents[Len(agents)].pc = "returned" => (turns' = turns /\ reqlog' = reqlog)]_vars

\* C8's case: the first turn of a query, which had no requests, has been
\* returned from with its text and one model call made.
C8_Witness ==
    /\ Len(agents) = 1
    /\ agents[1].pc = "returned"
    /\ agents[1].ret = <<"b">>
    /\ turns = 1
    /\ reqlog = <<>>

\* reason_and_act of agent a is running.
InQuery(a) == a.pc \notin {"idle", "returned", "raised"}

\* C9: with every model call, prompt and tool execution returning and the
\* model eventually producing a turn without requests, a running
\* reason_and_act ends (it returns, unless a call raised); what it returns
\* is the text of the last reasoning turn, a turn without requests; a turn
\* with requests is followed by acting and acting by the next reasoning
\* turn, never by a return.
C9_ReturnsLastTurnText ==
    /\ (InQuery(agents[1]) ~> agents[1].pc \in {"returned", "raised"})
    /\ [](\A i \in 1..Len(agents) :
            agents[i].pc = "returned"
               => /\ agents[i].tool_calls = <<>>
                  /\ agents[i].ret = agents[i].content
                  /\ agents[i].ret # <<>>
                        => agents[i].message_history[Len(agents[i].message_history)]
                             = [role |-> "ai", tag |-> "content", text |-> agents[i].ret,
                                id |-> 0])
    /\ [][\A i \in 1..Len(agents) :
            i <= Len(agents')
               => /\ (agents[i].pc # "returned" /\ agents'[i].pc = "returned")
                     => (agents[i].pc = "reasoned" /\ agents[i].tool_calls = <<>>)
                  /\ (agents[i].pc = "reasoned" /\ agents[i].tool_calls # <<>>)
                     => agents'[i].pc = "resolve"
                  /\ (agents[i].pc \in {"resolve", "prompt", "invoke", "awaiting"})
                     => agents'[i].pc \in {"resolve", "prompt", "invoke", "awaiting",
                                           "reasoning", "raised"}]_vars

\* C9's case: reason_and_act has returned the text of its third turn after
\* two turns with requests, the text differing from an earlier turn's.
C9_Witness ==
    /\ Len(agents) = 1
    /\ agents[1].pc = "returned"
    /\ turns = 3
    /\ Len(reqlog) >= 2
    /\ agents[1].ret = <<"b">>
    /\ \E j \in 1..Len(agents[1].message_history) :
          /\ agents[1].message_history[j].role = "ai"
          /\ agents[1].message_history[j].text = <<"a", "b">>

\* C10: a failure raised inside a sub-run (a failing model call, a tool name
\* that is not in the toolset, a tool that raises) ends the sub-run only:
\* task_tool returns a report with success=false, the caller appends it as
\* the tool message of the delegation request and goes on with its loop; no
\* agent is ended by an exception of another.
C10_SubRunFailureIsReported ==
    /\ [][(Len(agents) > 1 /\ agents[Len(agents)].pc = "raised")
          => LET sub == agents[Len(agents)]
                 parent == agents[Len(agents) - 1]
             IN /\ Len(agents') = Len(agents) - 1
                /\ \A i \in 1..(Len(agents) - 2) : agents'[i] = agents[i]
                /\ agents'[Len(agents) - 1].message_history =
                      Append(parent.message_history,
                             [role |-> "tool", tag |-> "task_failed", text |-> <<>>,
                              id |-> parent.request.id])
                /\ agents'[Len(agents) - 1].pc =
                      (IF parent.k < Len(parent.tool_calls) THEN "resolve" ELSE "reasoning")
                /\ last'.tool = "task_tool"
                /\ ~last'.out.success
                /\ last'.out.error = sub.exc]_vars
    /\ [][\A i \in 1..Len(agents) :
            (i <= Len(agents') /\ agents[i].pc # "raised" /\ agents'[i].pc = "raised")
               => (i = Len(agents) /\ Len(agents') = Len(agents))]_vars
    /\ [](\A i \in 1..(Len(agents) - 1) :
            agents[i].pc = "awaiting" /\ agents[i].request.name = "task_tool")

\* C10's case: a sub-run ended by a tool name that is not in the toolset has
\* been reported to the main agent, which goes on to its next reasoning
\* turn.
C10_Witness ==
    /\ Len(agents) = 1
    /\ last.tool = "task_tool"
    /\ last.out.error = "KeyError"
    /\ ~last.out.success
    /\ agents[1].pc = "reasoning"
    /\ agents[1].message_history[Len(agents[1].message_history)].tag = "task_failed"

\* The history a sub-run starts with: the three messages of its own
\* construction (character info, the sub-agent system prompt, the system
\* reminder), the prompt, and the todo-list reminder.
SubRunStartHistory ==
    <<[role |-> "system", tag |-> "character_info", text |-> <<>>, id |-> 0],
      [role |-> "system", tag |-> "sub_agent_system_prompt", text |-> <<>>, id |-> 0],
      [role |-> "human", tag |-> "system_reminder", text |-> <<>>, id |-> 0],
      [role |-> "human", tag |-> "query", text |-> <<>>, id |-> 0],
      [role |-> "human", tag |-> "todo_list_reminder", text |-> <<>>, id |-> 0]>>

\* C11: a delegated sub-run starts with a history of its own system
\* prompts, the reminders and the single prompt, and an empty todo list,
\* whatever the caller's history holds; while the sub-run goes on the history
\* and todo list of every waiting agent stay as they are; when it ends the
\* caller's history grows by exactly one tool message, the report with the
\* delegation request's id (the sub-run's return value when it returned),
\* and its todo list stays as it is.
C11_SubRunIsIsolated ==
    /\ [][Len(agents') = Len(agents) + 1
          => /\ agents'[Len(agents')].message_history = SubRunStartHistory
             /\ agents'[Len(agents')].todo_list = <<>>
             /\ \A i \in 1..Len(agents) :
                   /\ agents'[i].message_history = agents[i].message_history
                   /\ agents'[i].todo_list = agents[i].todo_list]_vars
    /\ [][Len(agents') = Len(agents)
          => \A i \in 1..(Len(agents) - 1) :
                /\ agents'[i].message_history = agents[i].message_history
                /\ agents'[i].todo_list = agents[i].todo_list]_vars
    /\ [][Len(agents') = Len(agents) - 1
          => LET sub == agents[Len(agents)]
                 parent == agents[Len(agents) - 1]
                 after == agents'[Len(agents) - 1]
             IN /\ \A i \in 1..(Len(agents) - 2) : agents'[i] = agents[i]
                /\ after.todo_list = parent.todo_list
                /\ Len(after.message_history) = Len(parent.message_history) + 1
                /\ SubSeq(after.message_history, 1, Len(parent.message_history))
                      = parent.message_history
                /\ after.message_history[Len(after.message_history)] =
                      [role |-> "tool",
                       tag |-> IF sub.pc = "returned" THEN "task_completed" ELSE "task_failed",
                       text |-> IF sub.pc = "returned" THEN sub.ret ELSE <<>>,
                       id |-> parent.request.id]]_vars

\* C11's case: a sub-run that ran a tool and then returned its text has
\* ended; the main agent's history is its own five messages and the one
\* report.
C11_Witness ==
    /\ Len(agents) = 1
    /\ last.tool = "task_tool"
    /\ last.out.success
    /\ Len(reqlog) = 2
    /\ reqlog[2].ran = 1
    /\ Len(agents[1].message_history) = 6
    /\ agents[1].message_history[6] =
          [role |-> "tool", tag |-> "task_completed", text |-> <<"b">>, id |-> 1]

\* C12: a sub-agent never executes task_tool or todo_write_tool: no agent
\* other than the main one stands in tool.invoke of either (or waits inside
\* task_tool), the last tool run by an agent other than the main one is
\* neither, and no sub-agent has a sub-agent of its own.
C12_SubAgentNeverDelegatesOrPlans ==
    /\ \A i \in 2..Len(agents) :
          agents[i].pc \in {"invoke", "awaiting"}
             => agents[i].request.name \notin {"task_tool", "todo_write_tool"}
    /\ (Len(agents) >= 2 /\ agents[Len(agents)].pc \notin {"returned", "raised"})
          => last.tool \notin {"task_tool", "todo_write_tool"}
    /\ Len(agents) <= 2

\* The tags of the tool messages in the history of agent a, in order.
ToolTags(a) ==
    LET idx == {j \in 1..Len(a.message_history) : a.message_history[j].role = "tool"}
        RECURSIVE Collect(_)
        Collect(j) == IF j > Len(a.message_history) THEN <<>>
                      ELSE IF j \in idx THEN <<a.message_history[j].tag>> \o Collect(j + 1)
                      ELSE Collect(j + 1)
    IN Collect(1)

\* C13: there is one ledger for every agent and query: every path a
\* read_tool call has succeeded on, in the main agent or in a sub-agent, in
\* this query or an earlier one, is in the ledger, and no edit_tool,
\* multi_edit_tool or write_tool call of any agent on such a path fails with
\* the read-first error.
C13_LedgerIsShared ==
    /\ reads \subseteq ledger
    /\ (/\ last.tool \in {"edit_tool", "multi_edit_tool", "write_tool"}
        /\ IsAbs(last.path)
        /\ AbsPath(last.path) \in reads)
       => /\ AbsPath(last.path) \in last.pre_ledger
          /\ last.out.error # "read_first"

\* C13's case: the main agent, which has run no tool but the delegation, has
\* edited /p after its sub-agent read it.
C13_Witness ==
    /\ Len(agents) = 1
    /\ last.tool = "edit_tool"
    /\ last.out.success
    /\ ToolTags(agents[1]) = <<"task_completed", "ok">>
    /\ "/p" \in reads

\* C14: after a successful write_tool, edit_tool or multi_edit_tool call on
\* a path (a multi_edit_tool call that creates the file included) the path
\* is marked read, and an edit_tool or multi_edit_tool call made next on the
\* path, with an old_string that differs from new_string, does not fail
\* with the read-first error.
C14_SuccessfulChangeMarksRead ==
    (last.tool \in {"write_tool", "edit_tool", "multi_edit_tool"} /\ last.out.success)
    => /\ is_file_read(ledger, last.path)
       /\ \A e \in Edits :
             e.old_string # e.new_string
                => edit_tool(fs, ledger, last.path, e.old_string, e.new_string,
                             e.replace_all).error # "read_first"
       /\ \A e \in Edits :
             (e.old_string # e.new_string /\ e.old_string # <<>>)
                => multi_edit_tool(fs, ledger, last.path, <<e>>).error # "read_first"

\* C15: the set of marked paths only grows: no step of any agent (a tool
\* call that succeeds or fails, an approval or rejection, a new query, the
\* start or end of a sub-run) takes a path out of the ledger, so
\* is_file_read of a path stays true once it is; and marking a path that is
\* marked leaves the ledger as it is.
C15_LedgerOnlyGrows ==
    /\ [][ledger \subseteq ledger']_vars
    /\ [][\A p \in RawPaths : is_file_read(ledger, p) => is_file_read(ledger', p)]_vars
    /\ [](\A p \in RawPaths :
            is_file_read(ledger, p) => mark_file_as_read(ledger, p) = ledger)

\* C15's case: the mark outlives the file: rm has removed /p, which was
\* marked, and the path (in either spelling) is still marked.
C15_Witness ==
    /\ last.tool = "bash_tool"
    /\ last.out.success
    /\ "/p" \in last.pre_ledger
    /\ ~fs["/p"].exists
    /\ is_file_read(ledger, "/d/../p")

\* C16: for a write_tool call on an absolute path that is not a directory:
\* when a file exists there and the path is not marked read the call fails
\* with the read-first error and every file stays as it was; when no file
\* exists there the call succeeds, marked or not, and the file holds the
\* given content; when a file exists there and a read_tool call on the path
\* has succeeded the call succeeds and the file holds exactly the given
\* content; a successful call changes no other file.
C16_WriteNeedsReadOfExistingFile ==
    (last.tool = "write_tool" /\ IsAbs(last.path) /\ ~IsDir(last.path))
    => LET p == AbsPath(last.path)
           was == last.pre[p]
           written == /\ last.out.success
                      /\ fs = [last.pre EXCEPT ![p] = File(last.content)]
       IN /\ (was.exists /\ p \notin last.pre_ledger)
                => /\ ~last.out.success
                   /\ last.out.error = "read_first"
                   /\ fs = last.pre
          /\ ~was.exists => written
          /\ (was.exists /\ p \in reads) => written

\* C16's case: a file of two characters that was read is overwritten with a
\* content of one character that it did not hold.
C16_Witness ==
    /\ last.tool = "write_tool"
    /\ last.out.success
    /\ last.pre["/p"] = File(<<"a", "b">>)
    /\ "/p" \in reads
    /\ last.content = <<"b">>
    /\ fs["/p"] = File(<<"b">>)

\* C17: a multi_edit_tool call in which an edit after the first has an
\* empty old_string, or in which the first edit has an empty old_string
\* while something exists at the path, fails and leaves every file as it
\* was.
C17_EmptyOldStringOnlyCreates ==
    (/\ last.tool = "multi_edit_tool"
     /\ \/ \E i \in 2..Len(last.edits) : last.edits[i].old_string = <<>>
        \/ /\ last.edits # <<>>
           /\ last.edits[1].old_string = <<>>
           /\ PathExists(last.pre, last.path))
    => /\ ~last.out.success
       /\ last.out.writes = 0
       /\ fs = last.pre

\* C18: a multi_edit_tool call on an absolute path where nothing exists,
\* with a first edit of empty old_string and new_string N, marked read or
\* not: when that is the only edit the call succeeds and the file holds
\* exactly N; with more edits the call succeeds exactly when none of the
\* later edits is invalid against N as changed by the edits before it, and
\* the file then holds N with the later edits applied in order.
C18_CreationThenEditsOfNewContent ==
    (/\ last.tool = "multi_edit_tool"
     /\ IsAbs(last.path)
     /\ ~PathExists(last.pre, last.path)
     /\ last.edits # <<>>
     /\ last.edits[1].old_string = <<>>)
    => LET p == AbsPath(last.path)
           N == last.edits[1].new_string
           later == SubSeq(last.edits, 2, Len(last.edits))
       IN /\ Len(last.edits) = 1
                => /\ last.out.success
                   /\ fs = [last.pre EXCEPT ![p] = File(N)]
          /\ last.out.success <=> ~HasInvalidEdit(N, later)
          /\ last.out.success
                => fs = [last.pre EXCEPT ![p] = File(ApplyFrom(later, FALSE, 1, N, 0).final)]

\* The content after the first n edits of the list have been made on c.
RECURSIVE After(_, _, _)
After(c, edits, n) == IF n = 0 THEN c ELSE ApplyEdit(After(c, edits, n - 1), edits[n])

RECURSIVE Rebuilt(_, _, _, _, _)
Rebuilt(c, cuts, n, new, i) ==
    IF i > Len(c) THEN <<>>
    ELSE IF i \in cuts THEN new \o Rebuilt(c, cuts, n, new, i + n)
    ELSE <<c[i]>> \o Rebuilt(c, cuts, n, new, i + 1)

\* The places of the non-overlapping occurrences of t in c taken left to
\* right (t not empty): a place where t occurs that no occurrence taken
\* before it covers.
Taken(c, t) ==
    LET RECURSIVE Scan(_)
        Scan(i) == IF i > Len(c) THEN {}
                   ELSE IF MatchAt(c, t, i) THEN {i} \cup Scan(i + Len(t))
                   ELSE Scan(i + 1)
    IN Scan(1)

\* C20: for an edit_tool call on an existing, read file with old_string not
\* empty and different from new_string, n being the number of
\* non-overlapping occurrences of old_string taken left to right: without
\* replace_all the call succeeds exactly when n = 1 (the one occurrence is
\* replaced, replacements_made is 1), and for n > 1 it fails reporting n
\* and leaves every file as it was; with replace_all and n >= 1 it succeeds,
\* each of the n occurrences is replaced and replacements_made is n; for
\* n = 0 it fails and leaves every file as it was.
C20_OccurrencesDecideEdit ==
    (/\ last.tool = "edit_tool"
     /\ IsAbs(last.path)
     /\ OnReadExistingFile
     /\ last.old_string # <<>>
     /\ last.old_string # last.new_string)
    => LET p == AbsPath(last.path)
           c == last.pre[p].content
           taken == Taken(c, last.old_string)
           n == Cardinality(taken)
           replaced == [last.pre EXCEPT ![p] =
                           File(Rebuilt(c, taken, Len(last.old_string), last.new_string, 1))]
       IN /\ (~last.replace_all /\ n = 1)
                => (last.out.success /\ last.out.replacements = 1 /\ fs = replaced)
          /\ (~last.replace_all /\ n > 1)
                => /\ ~last.out.success
                   /\ last.out.error = "multiple"
                   /\ last.out.occurrences = n
                   /\ fs = last.pre
          /\ (last.replace_all /\ n >= 1)
                => (last.out.success /\ last.out.replacements = n /\ fs = replaced)
          /\ n = 0 => (~last.out.success /\ fs = last.pre)

\* C20's case: in the read file 'aba' every 'a' has been replaced by 'b':
\* the file holds 'bbb' and two replacements are reported.
C20_Witness ==
    /\ last.tool = "edit_tool"
    /\ last.pre["/p"] = File(<<"a", "b", "a">>)
    /\ last.old_string = <<"a">>
    /\ last.new_string = <<"b">>
    /\ last.replace_all
    /\ last.out.success
    /\ last.out.replacements = 2
    /\ fs["/p"] = File(<<"b", "b", "b">>)

\* C21: after an approved todo_write_tool call whose list was accepted, the
\* todo list of the agent that made it is the submitted list, and its
\* history ends with two messages made for the request: the tool message
\* with the request's id and a reminder that renders the new list.
C21_AcceptedListIsStoredAndRendered ==
    (last.tool = "todo_write_tool" /\ last.out.success)
    => LET a == agents[Len(agents)]
           n == Len(a.message_history)
       IN /\ a.todo_list = a.request.todos
          /\ \E i, j \in {n - 1, n} :
                /\ i # j
                /\ a.message_history[i].role = "tool"
                /\ a.message_history[i].id = a.request.id
                /\ a.message_history[j].tag = "todo_list_changed"

\* The statuses of a task record.
TodoStatuses == {"pending", "in_progress", "completed"}

\* A list with every status in the enum and at most one record in_progress.
WellFormedTodos(todos) ==
    /\ \A i \in 1..Len(todos) : todos[i].status \in TodoStatuses
    /\ Cardinality({i \in 1..Len(todos) : todos[i].status = "in_progress"}) <= 1

InFlight(a) ==
    {j \in 1..Len(a.tool_calls) :
        reqlog[a.tool_calls[j]].ran > 0 /\ ~AnsweredInPlace(a, j)}

\* What a step is: a model call, the showing of a prompt, a tool invocation.
StepKinds ==
    (IF turns' > turns THEN {"model"} ELSE {})
    \cup (IF \E id \in DOMAIN reqlog : reqlog'[id].asked > reqlog[id].asked
          THEN {"prompt"} ELSE {})
    \cup (IF \E id \in DOMAIN reqlog : reqlog'[id].ran > reqlog[id].ran
          THEN {"tool"} ELSE {})

C25_UnlockedLedgerStaysWellFormed ==
    /\ [](/\ ledger \subseteq Files
          /\ ledger \subseteq threads.begun
          /\ threads.ended \subseteq ledger)
    /\ [](\A t \in Threads :
            (threads.at[t].pc = "tested" /\ threads.at[t].result)
               => AbsPath(threads.at[t].path) \in threads.begun)
    /\ [][\A t \in Threads :
            (threads.at[t].pc = "testing" /\ threads'.at[t].pc = "tested")
               => /\ threads'.at[t].result <=> AbsPath(threads.at[t].path) \in ledger
                  /\ ~threads'.at[t].result
                        => AbsPath(threads.at[t].path) \notin threads.ended]_vars

\* C25's case: one thread was told that /p is not read while the other is
\* inside mark_file_as_read of the same file under its other spelling, and
\* a mark of /q made meanwhile is in the ledger.
C25_Witness ==
    /\ threads.at[1] = [pc |-> "tested", path |-> "/p", result |-> FALSE]
    /\ threads.at[2] = [pc |-> "marking", path |-> "/d/../p", result |-> FALSE]
    /\ "/p" \in threads.begun
    /\ "/p" \notin threads.ended
    /\ ledger = {"/q"}

\* s is t with zero or more elements added at the end.
Extends(s, t) == Len(s) >= Len(t) /\ SubSeq(s, 1, Len(t)) = t

\* C26: in every step the history of every agent that is there before and
\* after the step is its old history with zero or more messages added at
\* the end, and a history that grew is that of the agent running after the
\* step (the owner: the running agent, or the caller taking the report of
\* the sub-run that ended); a starting sub-agent changes no history.
C26_HistoryIsAppendOnly ==
    [][\A i \in 1..Len(agents) :
          i <= Len(agents')
             => /\ Extends(agents'[i].message_history, agents[i].message_history)
                /\ agents'[i].message_history # agents[i].message_history
                      => (i = Len(agents') /\ Len(agents') <= Len(agents))]_vars

\* C26's case: the main agent is in its second query and its history still
\* holds the first query with the answer given to it.
C26_Witness ==
    /\ Len(agents) = 1
    /\ agents[1].pc = "reasoning"
    /\ LET h == agents[1].message_history
       IN /\ Cardinality({j \in 1..Len(h) : h[j].tag = "query"}) = 2
          /\ h[4].tag = "query"
          /\ \E j \in 5..(Len(h) - 1) : h[j].role = "ai" /\ h[j + 1].tag = "query"

\* The file, shell and fetch tools.
WorkTools ==
    {"read_tool", "write_tool", "edit_tool", "multi_edit_tool", "bash_tool",
     "grep_tool", "glob_tool", "ls_tool", "webfetch_tool", "websearch_tool"}

\* C27: the invocation of an approved file, shell or fetch tool never ends
\* the agent: when it fails (invalid arguments, read-first, missing path)
\* the failure is appended as the tool message of the request and acting
\* goes on to the next request or the next reasoning turn; and
\* reason_and_act is left by an exception only when the model call failed.
C27_OnlyModelFailureRaises ==
    /\ [][(/\ agents[Len(agents)].pc = "invoke"
           /\ agents[Len(agents)].request.name \in WorkTools)
          => LET a == agents[Len(agents)]
                 b == agents'[Len(agents)]
             IN /\ Len(agents') = Len(agents)
                /\ last'.tool = a.request.name
                /\ b.message_history =
                      Append(a.message_history,
                             [role |-> "tool",
                              tag |-> IF last'.out.success THEN "ok" ELSE last'.out.error,
                              text |-> <<>>, id |-> a.request.id])
                /\ IF a.k < Len(a.tool_calls)
                   THEN b.pc = "resolve" /\ b.k = a.k + 1
                   ELSE b.pc = "reasoning"]_vars
    /\ [](\A i \in 1..Len(agents) :
            agents[i].pc = "raised" => agents[i].exc = "model_error")

\* C28: a request naming a tool outside the toolset makes acting fail with
\* KeyError at once: the human has not been asked about the request, no tool
\* has run for it (files and ledger are as they were) and the history holds
\* no tool message for it.
C28_UnknownToolFailsBeforePrompt ==
    /\ [][(/\ agents[Len(agents)].pc = "resolve"
           /\ Len(agents') = Len(agents)
           /\ agents'[Len(agents)].request.name \notin toolset)
          => LET a == agents[Len(agents)]
                 b == agents'[Len(agents)]
             IN /\ b.pc = "raised"
                /\ b.exc = "KeyError"
                /\ b.request.id = a.tool_calls[a.k]
                /\ b.message_history = a.message_history
                /\ reqlog' = reqlog
                /\ fs' = fs
                /\ ledger' = ledger
                /\ last' = NoCall]_vars
    /\ [](\A i \in 1..Len(agents) :
            (agents[i].pc = "raised" /\ agents[i].exc = "KeyError")
            => /\ agents[i].request.name \notin toolset
               /\ reqlog[agents[i].request.id] = [asked |-> 0, ran |-> 0]
               /\ \A j \in 1..Len(agents[i].message_history) :
                     agents[i].message_history[j].role = "tool"
                     => agents[i].message_history[j].id # agents[i].request.id)

\* The second request of a turn names an unknown tool after the first was
\* approved and ran: acting has failed with the first request's tool message
\* as the last message and nothing asked about the second.
C28_Witness ==
    \E i \in 1..Len(agents) :
       LET a == agents[i]
           h == a.message_history
       IN /\ a.pc = "raised"
          /\ a.exc = "KeyError"
          /\ a.k = 2
          /\ reqlog[a.tool_calls[1]] = [asked |-> 1, ran |-> 1]
          /\ reqlog[a.tool_calls[2]] = [asked |-> 0, ran |-> 0]
          /\ h[Len(h)].role = "tool"
          /\ h[Len(h)].id = a.tool_calls[1]

\* C29: a get returns content only for an entry that exists, parses and is
\* at most 900 seconds old, and then the stored content; on an entry that
\* does not parse or is older than 900 seconds it returns a miss and
\* deletes the entry; and a get after such a miss, with no set in between,
\* is a miss too.
C29_CacheServesOnlyFreshEntries ==
    [][(lastop' # lastop /\ lastop'.op = "get")
       => LET u == lastop'.url
              e == cache_dir[u]
              age == clock - e.timestamp
          IN /\ lastop'.hit => /\ e.kind = "json"
                               /\ age <= 900
                               /\ lastop'.content = e.content
             /\ (e.kind = "corrupt" \/ (e.kind = "json" /\ age > 900))
                   => ~lastop'.hit /\ cache_dir'[u] = NoEntry
             /\ missed[u] # "" => ~lastop'.hit]_vars

\* An entry of u written at second 0 was dropped by a get at second 901 and
\* a second get of u, no set between, has missed; the entry of v written at
\* second 451 is still stored (450 seconds old).
C29_Witness ==
    /\ clock = 901
    /\ lastop = [op |-> "get", url |-> "https://u", hit |-> FALSE, content |-> <<>>, again |-> TRUE]
    /\ missed["https://u"] = "expired"
    /\ cache_dir["https://u"] = NoEntry
    /\ cache_dir["https://v"].kind = "json"
    /\ cache_dir["https://v"].timestamp = 451

\* C30: a bash_tool call whose command ran into the timeout returns
\* success false, reports the timeout and carries in stdout what the command
\* had written before it; the command was started once.
C30_TimeoutKeepsPartialOutput ==
    (proc.pc = "returned" /\ proc.elapsed >= proc.timeout_seconds
                          /\ proc.i <= Len(proc.command))
    => /\ ~proc.result.success
       /\ proc.result.stderr = "timed out"
       /\ proc.result.stdout = proc.written
       /\ proc.runs = 1

\* C31: a binary_search call on an ascending-sorted list returns: an index
\* holding the target when the target occurs in the list, -1 when it does
\* not (the empty list included).
C31_BinarySearchFindsOrMisses ==
    /\ [](search.pc = "returned"
          => LET arr == search.arr
                 occurs == \E i \in 1..Len(arr) : arr[i] = search.target
             IN IF occurs
                THEN /\ search.result \in 0..(Len(arr) - 1)
                     /\ arr[search.result + 1] = search.target
                ELSE search.result = -1)
    /\ (search.pc = "loop") ~> (search.pc = "returned")

\* The last of a list of four with equal neighbours was found at index 3
\* after the loop had narrowed to the right half.
C31_Witness ==
    /\ search.pc = "returned"
    /\ search.arr = <<0, 1, 1, 3>>
    /\ search.target = 3
    /\ search.result = 3
    /\ search.iterations >= 2

\* The check an edit fails against content c, in the order the checks are
\* made; "" when it passes all three.
FailedCheck(c, e) ==
    IF e.old_string = e.new_string THEN "same_strings"
    ELSE IF Places(c, e.old_string) = {} THEN "not_found"
    ELSE IF Cardinality(Places(c, e.old_string)) > 1 /\ ~e.replace_all THEN "multiple"
    ELSE ""

Starts(i) ==
    /\ i \in 1..Len(agents')
    /\ agents'[i].pc = "reasoning"
    /\ i <= Len(agents) => agents[i].pc \in {"idle", "returned"}

RECURSIVE TextInOrder(_)
TextInOrder(chunks) ==
    IF chunks = <<>> THEN <<>> ELSE Head(chunks).content \o TextInOrder(Tail(chunks))
RECURSIVE RequestsIn(_)
RequestsIn(chunks) ==
    IF chunks = <<>> THEN 0 ELSE Head(chunks).calls + RequestsIn(Tail(chunks))

\* C34: a reasoning() call that has returned hands back one message whose
\* text is the chunks' texts in arrival order and whose requests are those
\* of the stream; it has appended one assistant message with that text when
\* the text is not empty, and nothing when it is empty, requests or not.
C34_GatheredIsTheStreamInOrder ==
    llm_stream.pc = "returned"
    => /\ llm_stream.gathered.content = TextInOrder(llm_stream.chunks)
       /\ llm_stream.gathered.calls = RequestsIn(llm_stream.chunks)
       /\ IF llm_stream.gathered.content # <<>>
          THEN llm_stream.appended =
                  <<[role |-> "ai", tag |-> "content",
                     text |-> TextInOrder(llm_stream.chunks), id |-> 0]>>
          ELSE llm_stream.appended = <<>>

\* Three chunks 'a' with a request, '' and 'b' have been gathered to the
\* text 'ab' with one request, and one message was appended.
C34_Witness ==
    /\ llm_stream.pc = "returned"
    /\ llm_stream.chunks = <<Chunk(<<"a">>, 1), Chunk(<<>>, 0), Chunk(<<"b">>, 0)>>
    /\ llm_stream.gathered = Chunk(<<"a", "b">>, 1)
    /\ Len(llm_stream.appended) = 1

\* The path arguments that do not begin with a slash.
NonAbsolutePaths == {"p"}

\* The four tools that take a file_path to read or change.
PathTools == {"read_tool", "write_tool", "edit_tool", "multi_edit_tool"}

\* C35: a call of read_tool, write_tool, edit_tool or multi_edit_tool with a
\* non-absolute file_path, and a multi_edit_tool call with an empty edit
\* list, returns success=false, writes nothing, and leaves every file, the
\* ledger and the record of read files as they were.
C35_BadArgumentsChangeNothing ==
    [][(/\ last' # last
        /\ last'.tool \in PathTools
        /\ \/ last'.path \in NonAbsolutePaths
           \/ last'.tool = "multi_edit_tool" /\ last'.edits = <<>>)
       => /\ ~last'.out.success
          /\ last'.out.writes = 0
          /\ last'.out.error \in {"relative_path", "no_edits", "same_strings"}
          /\ fs' = fs
          /\ ledger' = ledger
          /\ reads' = reads]_vars

\* write_tool was called with the relative path p while /p existed and was
\* in the ledger (the absolute spelling would have been written): it failed
\* on the path and /p holds what it held.
C35_Witness ==
    /\ last.tool = "write_tool"
    /\ last.path = "p"
    /\ last.pre["/p"].exists
    /\ "/p" \in last.pre_ledger
    /\ last.content # last.pre["/p"].content
    /\ ~last.out.success
    /\ last.out.error = "relative_path"
    /\ fs = last.pre

\* C36: the timeout a bash_tool call runs its command with is 120000 ms
\* when the timeout argument is left out or None and the smaller of the
\* argument and 600000 ms otherwise; it is never above 600000 ms.
C36_TimeoutIsDefaultedAndCapped ==
    proc.pc # "none"
    => /\ proc.timeout \in {Absent, None} => proc.timeout_seconds = 120000
       /\ proc.timeout \notin {Absent, None}
             => proc.timeout_seconds =
                   (IF proc.timeout < 600000 THEN proc.timeout ELSE 600000)
       /\ proc.timeout_seconds <= 600000

\* A call with timeout 700000 whose command slept 650000 ms has run into
\* the timeout at 600000 ms.
C36_Witness ==
    /\ proc.pc = "returned"
    /\ proc.timeout = 700000
    /\ proc.timeout_seconds = 600000
    /\ proc.command = <<Sleep(650000)>>
    /\ proc.elapsed = 600000
    /\ proc.result.stderr = "timed out"

\* C37: a fetch of a URL (in either form) whose cache entry was written by
\* the last successful fetch from the network, not more than 900 seconds
\* ago, makes no network request and returns that content with cached
\* true; and a fetch that fails or reports a redirect writes no entry.
C37_FetchedPageIsServedFromCache ==
    [][fetched' # fetched
       => LET n == _normalize_url(fetched'.url)
              e == cache_dir[n]
              o == origin[n]
          IN /\ (/\ o.known
                 /\ clock - o.at <= 900
                 /\ e = Entry(o.at, o.content))
                => /\ fetched'.requests = 0
                   /\ fetched'.result = FetchResult(TRUE, o.content, TRUE, FALSE)
             /\ ~fetched'.result.success
                => cache_dir'[n] \in {e, NoEntry}]_vars

\* C38: in every history each tool message comes after an assistant message
\* that carries the tool-call request with the tool message's id.
C38_ToolMessageFollowsItsRequest ==
    \A a \in 1..Len(agents) :
       LET h == agents[a].message_history
       IN \A i \in 1..Len(h) :
             h[i].role = "tool"
             => \E j \in 1..(i - 1) : h[j].role = "ai" /\ h[j].id = h[i].id

\* C39: a read_tool call that returns success=false (relative path, missing
\* path, directory, notebook, permission denial) leaves the ledger as it
\* was; the ledger changes only in a call that returns success=true, and
\* then by the path of that call.
C39_FailedReadMarksNothing ==
    [][/\ (last' # last /\ last'.tool = "read_tool" /\ ~last'.out.success)
          => ledger' = ledger /\ fs' = fs
       /\ ledger' # ledger
          => /\ last'.out.success
             /\ ledger' = ledger \cup {AbsPath(last'.path)}]_vars

\* read_tool was refused on the notebook /p, an existing file with content
\* that no call has read: /p is not in the ledger.
C39_Witness ==
    /\ last.tool = "read_tool"
    /\ last.path = "/p"
    /\ last.pre["/p"].exists
    /\ last.pre["/p"].content # <<>>
    /\ ~last.out.success
    /\ last.out.error = "notebook"
    /\ "/p" \notin ledger
====
